---------------------------- MODULE Spec2Model ----------------------------
(***************************************************************************)
(* A model of the two Telegram bots of ftm-saavnbot.                       *)
(*                                                                         *)
(*   bot.py  FTMBot: /music, /album, free text, document upload (the ID    *)
(*           path, process_id -> process_album -> process_song_downloads)  *)
(*           and /get (the URL path, process_song_from_album).             *)
(*   app.py  handle_txt: the .txt album-link pipeline with download_song,  *)
(*           convert_to_mp3, embed_metadata and send_audio.                *)
(*                                                                         *)
(* Each script has its own main(); a run of the program is a run of one of *)
(* them, chosen in Init (variable program).  python-telegram-bot hands the *)
(* updates to the handlers one at a time (concurrent_updates is off by     *)
(* default), so a handler runs from its start to its end before the next   *)
(* one starts; pc is the position inside the running handler.  Everything  *)
(* the outside world decides (what the catalog APIs answer, how a download *)
(* or an upload ends) is chosen with \E in the step that makes the call.   *)
(***************************************************************************)
EXTENDS Integers, Sequences, FiniteSets, TLC

\* ------------------------------------------------------------------ bounds
\* identifiers (or URLs) extracted from one request
MaxIds == 2
\* album URLs one identifier resolves to
MaxAlbums == 2
\* songs in one album record
MaxSongs == 2
\* songs enumerated by the resolver over one run of the process
MaxTotalSongs == 2
\* messages the admin's chat holds
MaxMessages == 3
\* characters of an identifier given to process_id
MaxIdLen == 7
\* lines of a text given to an extraction
MaxLines == 2
\* whitespace-separated words of a line of a URL file
MaxWords == 2
\* URLs of a list given to sort_urls_by_quality
MaxUrls == 3

\* ------------------------------------------------------- program constants
\* bot.py __init__: self.max_file_size = 50 * 1024 * 1024
max_file_size == 52428800

\* a song record without 'id' / a response without content-length
NoId == "None"
NoHeader == -1

\* --------------------------------------------------------------- the URLs
\* A download URL is modelled by what the code looks at: whether it starts
\* with 'http', which quality substrings it contains, and its extension.
Url320 == [name |-> "cdn/a_320.mp4", http |-> TRUE, marks |-> {"320"}, ext |-> ".mp4"]
Url160 == [name |-> "cdn/a_160.mp4", http |-> TRUE, marks |-> {"160"}, ext |-> ".mp4"]
UrlFlac == [name |-> "cdn/b.flac", http |-> TRUE, marks |-> {}, ext |-> ".flac"]
UrlMp3 == [name |-> "cdn/b.mp3", http |-> TRUE, marks |-> {}, ext |-> ".mp3"]
UrlBad == [name |-> "ftp/c.mp3", http |-> FALSE, marks |-> {}, ext |-> ".mp3"]

\* get_quality_score, the key of sort_urls_by_quality
get_quality_score(url) ==
    IF url.marks \cap {"320", "_h.", "high"} # {} THEN 320
    ELSE IF "256" \in url.marks THEN 256
    ELSE IF "192" \in url.marks THEN 192
    ELSE IF url.marks \cap {"160", "_m.", "medium"} # {} THEN 160
    ELSE IF "128" \in url.marks THEN 128
    ELSE IF url.marks \cap {"96", "_l.", "low"} # {} THEN 96
    ELSE IF "64" \in url.marks THEN 64
    ELSE IF url.ext = ".flac" THEN 400
    ELSE IF url.ext \in {".m4a", ".aac"} THEN 200
    ELSE IF url.ext = ".mp3" THEN 150
    ELSE 100

\* sorted(..., reverse=True) is stable: u goes after every element whose key
\* is greater than or equal to its own, before the first smaller one.
RECURSIVE InsertByScore(_, _)
InsertByScore(u, s) ==
    IF s = <<>> THEN <<u>>
    ELSE IF get_quality_score(Head(s)) >= get_quality_score(u)
         THEN <<Head(s)>> \o InsertByScore(u, Tail(s))
         ELSE <<u>> \o s

RECURSIVE SortedPrefix(_, _)
SortedPrefix(urls, n) ==
    IF n = 0 THEN <<>>
    ELSE InsertByScore(urls[n], SortedPrefix(urls, n - 1))

\* a plausible slip: the list is returned in the order the API gave it
sort_urls_unsorted(urls) == urls

sort_urls_by_quality(urls) == SortedPrefix(urls, Len(urls))

\* valid_urls: 'http' URLs, each once, in first-seen order
RECURSIVE valid_urls(_, _)
valid_urls(urls, seen) ==
    IF urls = <<>> THEN <<>>
    ELSE IF Head(urls).http /\ Head(urls) \notin seen
         THEN <<Head(urls)>> \o valid_urls(Tail(urls), seen \cup {Head(urls)})
         ELSE valid_urls(Tail(urls), seen)

\* get_download_urls: the song's downloadUrl list, then the quality fields
\* and media_url (absent from the records of this model), filtered and sorted
get_download_urls(song) ==
    sort_urls_by_quality(valid_urls(song.downloadUrl, {}))

\* ------------------------------------------------------------- the songs
SongA == [id |-> "sA", downloadUrl |-> <<Url160, Url320>>]
SongB == [id |-> "sB", downloadUrl |-> <<UrlMp3, UrlFlac, UrlMp3>>]
SongC == [id |-> "sC", downloadUrl |-> <<UrlBad>>]
SongE == [id |-> "sE", downloadUrl |-> <<>>]
Catalog == {SongA, SongB, SongC, SongE}
SongIds == {s.id : s \in Catalog}

SeqsUpTo(S, n) == UNION {[1..k -> S] : k \in 0..n}
Range(s) == {s[i] : i \in 1..Len(s)}
NoRepeat(s) == \A i, j \in 1..Len(s) : i # j => s[i] # s[j]


\* ----------------------------------------------------------- identifiers
\* An identifier is the sequence of its characters.
Digits == {"0", "1", "2", "3", "4", "5", "6", "7", "8", "9"}
AlbumId8 == <<"5", "5", "6", "6", "6", "5", "7", "6">>
MusicId8 == <<"s", "-", "i", "N", "U", "k", "w", "V">>
IdPool == {AlbumId8, MusicId8}

\* a plausible slip: no identifier is taken for an album identifier
is_album_id_never(id_str) == FALSE

\* a plausible slip: the pattern without its minimum length
is_album_id_any_length(id_str) ==
    \A i \in 1..Len(id_str) : id_str[i] \in Digits

\* re.match(r'^\d{6,}$', id_str)
is_album_id(id_str) ==
    Len(id_str) >= 6 /\ \A i \in 1..Len(id_str) : id_str[i] \in Digits

\* the endpoints process_id calls for an identifier: its if / else
process_id_calls(id_str) ==
    {IF is_album_id(id_str) THEN "get_album_by_id" ELSE "get_song_by_id"}

\* extract_ids_from_text ends with list(dict.fromkeys(ids)): no identifier
\* twice.  The lists a text or a file can yield:
IdLists == {s \in SeqsUpTo(IdPool, MaxIds) : NoRepeat(s)}

\* context.args of a command: no argument, or the first one
ArgLists == SeqsUpTo(IdPool, 1)

\* album URLs, as process_id collects them: list(dict.fromkeys(album_urls))
\* holds no URL twice.  What an album URL resolves to is chosen when it is
\* resolved, so the lists differ only in their length: the k-th URL found is
\* named k.
AlbumUrlLists == {[i \in 1..k |-> i] : k \in 0..MaxAlbums}

\* ------------------------------------------------------------- downloads
\* What a GET of a download URL can bring: fails = raise_for_status or the
\* connection raises before the body; clen = the content-length header;
\* body = the bytes the stream delivers; breaks = the stream raises after
\* having delivered them.
RespOk == [fails |-> FALSE, clen |-> 4096, body |-> 4096, breaks |-> FALSE]
RespError == [fails |-> TRUE, clen |-> NoHeader, body |-> 0, breaks |-> FALSE]
RespDeclaredBig ==
    [fails |-> FALSE, clen |-> max_file_size + 1, body |-> max_file_size + 1,
     breaks |-> FALSE]
RespStreamBig ==
    [fails |-> FALSE, clen |-> NoHeader, body |-> max_file_size + 1,
     breaks |-> FALSE]
RespBroken == [fails |-> FALSE, clen |-> 4096, body |-> 2048, breaks |-> TRUE]
Responses ==
    {RespOk, RespError, RespDeclaredBig, RespStreamBig, RespBroken}

\* the size check of download_file
too_large(content_length) ==
    content_length # NoHeader /\ content_length > max_file_size

\* FTMBot.download_file: the result and the bytes written to filepath
download_file(resp) ==
    IF resp.fails THEN [ok |-> FALSE, written |-> 0]
    ELSE IF too_large(resp.clen) THEN [ok |-> FALSE, written |-> 0]
    ELSE IF resp.breaks THEN [ok |-> FALSE, written |-> resp.body]
    ELSE [ok |-> TRUE, written |-> resp.body]

\* FTMBot.download_file opens filepath for writing once the response passed
\* raise_for_status and the size check; nothing removes it when the stream
\* breaks
leaves_file(resp) == ~resp.fails /\ ~too_large(resp.clen)

\* app.py download_song: raises or returns; every chunk is written
download_song(resp) ==
    IF resp.fails THEN [ok |-> FALSE, written |-> 0]
    ELSE IF resp.breaks THEN [ok |-> FALSE, written |-> resp.body]
    ELSE [ok |-> TRUE, written |-> resp.body]

\* one download attempt, as recorded in io.attempts
Attempt(url, resp, d) ==
    [url |-> url.name, score |-> get_quality_score(url), declared |-> resp.clen,
     body |-> resp.body, ok |-> d.ok, written |-> d.written]

\* ------------------------------------------------------------------ state
VARIABLES
    program,            \* "bot" (bot.py) or "app" (app.py): the script that runs
    pc,                 \* position of the running handler; "idle" between updates
    handler,            \* the entry point of the running request
    ids,                \* bot.py: identifiers of the request still to process
    total_ids,          \* bot.py: len(ids) / len(urls) of the request
    album_urls,         \* bot.py: album URLs of that identifier still to process
    songs,              \* songs of the current album still to process
    total_songs,        \* len(songs) of the current album
    urls,               \* bot.py /get: URLs of the request still to process
    processed_count,    \* bot.py /get: local processed_count of get_command
    processed_songs,    \* FTMBot.processed_songs
    progress_stats,     \* FTMBot.progress_stats
    app_albums,         \* app.py: album links of the .txt still to process
    io,                 \* what the last step did to the outside world
    sent,               \* song id -> send_audio calls for it in this request
    handled,            \* song ids presented to a song processor in this request
    earlier,            \* song ids presented in earlier requests
    enumerated,         \* songs enumerated by the resolver in this request
    enumerated_total,   \* songs enumerated since the process started
    resolver,           \* bot.py: get_album_metadata followed call by call
    progress_messages,  \* FTMBot.progress_messages: key -> message id
    admin_chat,         \* progress messages delivered to the admin, by id
    progress_call,      \* what the last send_admin_progress call did
    routing,            \* process_id: the identifier and the endpoints called
    extraction,         \* extract_*_from_text: the text and the list returned
    captioning,         \* format_caption: the metadata and the caption returned
    sorting             \* sort_urls_by_quality: the list given and returned

\* the variables of the handlers and of their observation
main_vars ==
    <<program, pc, handler, ids, total_ids, album_urls, songs,
      total_songs, urls, processed_count, processed_songs, progress_stats,
      app_albums, io, sent, handled, earlier, enumerated,
      enumerated_total>>

\* The handlers take what a catalog lookup answers as a whole (PrimaryAnswers,
\* FallbackAnswers below); the lookups behind an answer are followed endpoint
\* by endpoint in ResolverSpec, on the variables of aside, which the
\* handlers' steps leave alone.
admin_vars == <<progress_messages, admin_chat, progress_call>>

aside ==
    <<resolver, admin_vars, routing, extraction, captioning, sorting>>

vars == <<main_vars, aside>>

\* the variables of a request in progress
request_vars ==
    <<handler, ids, total_ids, album_urls, songs, total_songs,
      urls, processed_count, app_albums>>

\* the observation variables of a request (not program state)
batch_vars == <<sent, handled, earlier, enumerated>>

StatKeys == {"downloaded", "duplicates", "failed", "skipped", "processed"}

\* io of a step that did nothing outside
Quiet ==
    [op |-> "none", song |-> NoId, repeat |-> FALSE, known |-> FALSE,
     outcome |-> "", attempts |-> <<>>, audio |-> FALSE, audio_size |-> 0,
     calls |-> {}, logs |-> {}, progress |-> {}, replies |-> <<>>,
     steps |-> <<>>, tags |-> "", files |-> {}, arg |-> <<>>,
     mime |-> <<>>, count |-> 0, uploaded |-> 0]

\* create_fancy_progress_bar: the numbers the progress text shows
create_fancy_progress_bar(current, total, stats) ==
    [current |-> current, total |-> total,
     downloaded |-> stats["downloaded"], duplicates |-> stats["duplicates"],
     failed |-> stats["failed"], skipped |-> stats["skipped"],
     processed |-> stats["processed"]]

\* send_admin_progress: the text rendered from progress_stats, under its key
send_admin_progress(current, total, key, stats) ==
    [key |-> key, text |-> create_fancy_progress_bar(current, total, stats)]

\* send_admin_progress mirrors the text to the logs channel once the
\* admin's message is edited or sent (delivered); when that raises, its
\* except branch logs the error and nothing is mirrored
progress_logs(delivered) == IF delivered THEN {"PROGRESS"} ELSE {}

\* a plausible slip: the statistic is counted twice
Bump_twice(stats, key) == [stats EXCEPT ![key] = @ + 2]

\* a plausible slip: the statistics are rebuilt around the one counted
Bump_resetting(stats, key) ==
    [k \in DOMAIN stats |-> IF k = key THEN stats[k] + 1 ELSE 0]

\* self.progress_stats[key] += 1
Bump(stats, key) == [stats EXCEPT ![key] = @ + 1]

\* a plausible slip: the request keeps the set of the request before it
processed_songs_kept == processed_songs

\* self.processed_songs.clear()
processed_songs_clear == {}

\* process_song_downloads: song_id and song_id in self.processed_songs
is_duplicate(song_id, processed) == song_id # NoId /\ song_id \in processed

\* the resolver at rest: no lookup is under way
ResolverIdle ==
    [pc |-> "idle", ids |-> 0, items |-> 0, passed_over |-> FALSE,
     calls |-> <<>>, attempt |-> 0, raw |-> <<>>,
     entry |-> 0, songs_with_urls |-> <<>>, result |-> "", songs |-> <<>>]

\* the keys send_admin_progress is called with
ProgressKeys ==
    {"album_progress", "batch_progress", "file_progress", "url_progress"}

\* no message id is remembered for the key
NoMessage == 0

\* before the first send_admin_progress call
NoCall ==
    [key |-> "", remembered |-> NoMessage, edited |-> NoMessage,
     edit |-> "none", send |-> "none", logs |-> {}]

\* a plausible slip: the Application built with concurrent_updates
accepts_update_concurrently(at) == TRUE

\* Application.builder().token(...).build() leaves concurrent_updates off:
\* the Application awaits the handler of an update before it takes the
\* next update from its queue
accepts_update(at) == at = "idle"

\* sort_urls_by_quality is not running
NotSorting == [called |-> FALSE, urls |-> <<>>, returned |-> <<>>]

\* no caption is being built
NotCaptioning == [called |-> FALSE, metadata |-> <<>>, caption |-> <<>>]

\* no extraction is running
NotExtracting == [of |-> "none", text |-> <<>>, returned |-> <<>>]

\* no process_id call is running
NotRouting == [id |-> <<>>, calls |-> {}]

\* the end of a request, for the observation variables
EndBatch ==
    /\ sent' = [i \in SongIds |-> 0]
    /\ handled' = {}
    /\ earlier' = earlier \cup handled
    /\ enumerated' = 0

\* a song is presented to a song processor
Present(song) ==
    /\ handled' = handled \cup ({song.id} \ {NoId})
    /\ earlier' = earlier
    /\ enumerated' = enumerated

Init ==
    /\ program \in {"bot", "app"}
    /\ pc = "idle"
    /\ handler = "none"
    /\ ids = <<>>
    /\ total_ids = 0
    /\ album_urls = <<>>
    /\ songs = <<>>
    /\ total_songs = 0
    /\ urls = <<>>
    /\ processed_count = 0
    /\ processed_songs = {}
    /\ progress_stats = [k \in StatKeys |-> 0]
    /\ app_albums = <<>>
    /\ io = Quiet
    /\ sent = [i \in SongIds |-> 0]
    /\ handled = {}
    /\ earlier = {}
    /\ enumerated = 0
    /\ enumerated_total = 0
    /\ resolver = ResolverIdle
    /\ progress_messages = [k \in ProgressKeys |-> NoMessage]
    /\ admin_chat = <<>>
    /\ progress_call = NoCall
    /\ routing = NotRouting
    /\ extraction = NotExtracting
    /\ captioning = NotCaptioning
    /\ sorting = NotSorting

\* ------------------------------------------------------------ the resolver
\* The song lists an album record can hold.  The run is bounded by the
\* number of songs the resolver enumerates in it: room is what is left.
Min(a, b) == IF a <= b THEN a ELSE b
Room == MaxTotalSongs - enumerated_total
SongLists == SeqsUpTo(Catalog, Min(MaxSongs, Room))

\* what the FTM album endpoint answers: an error (or no JSON), or a song list
PrimaryAnswers ==
    {[ok |-> FALSE, songs |-> <<>>]} \cup {[ok |-> TRUE, songs |-> l] : l \in SongLists}

\* what get_album_metadata_fallback returns: None (<<>>), or the songs for
\* which the song-detail or the FTM results endpoint gave a non-empty
\* downloadUrl (whatever the URLs in it are)
FallbackAnswers ==
    {l \in SongLists : \A i \in 1..Len(l) : l[i].downloadUrl # <<>>}

\* valid_songs = [song for song in data['songs'] if self.get_download_urls(song)]
valid_songs(l) == SelectSeq(l, LAMBDA song : get_download_urls(song) # <<>>)

\* get_album_metadata: the songs of the record it returns, <<>> for None
get_album_metadata(primary, fallback) ==
    IF primary.ok /\ valid_songs(primary.songs) # <<>>
    THEN valid_songs(primary.songs)
    ELSE fallback

\* a plausible slip: process_album lets an exception out, past process_id
after_album_raising(rest) == "raised"

\* a plausible slip: process_id returns after its first album
after_album_returning(rest) == "ids"

\* where process_id continues after process_album returns
after_album(rest) == IF rest = <<>> THEN "ids" ELSE "albums"

\* ------------------------------------------------- bot.py: the ID path
\* music_command
music_command ==
    /\ program = "bot" /\ accepts_update(pc)
    /\ \E args \in ArgLists :
        IF args = <<>>
        THEN /\ io' = [Quiet EXCEPT !.op = "music_command", !.replies = <<"usage">>]
             /\ UNCHANGED <<aside, program, pc, request_vars, processed_songs,
                            progress_stats, batch_vars,
                            enumerated_total>>
        ELSE /\ processed_songs' = processed_songs_clear
             /\ IF is_album_id(args[1])
                THEN /\ io' = [Quiet EXCEPT !.op = "music_command",
                                            !.arg = args[1],
                                            !.replies = <<"wrong_kind">>]
                     /\ UNCHANGED <<aside, program, pc, request_vars, progress_stats,
                                    batch_vars, enumerated_total>>
                ELSE /\ io' = [Quiet EXCEPT !.op = "music_command",
                                            !.arg = args[1],
                                            !.replies = <<"processing">>]
                     /\ pc' = "ids"
                     /\ handler' = "music"
                     /\ ids' = <<args[1]>>
                     /\ total_ids' = 1
                     /\ UNCHANGED batch_vars
                     /\ UNCHANGED <<aside, program, album_urls, songs,
                                    total_songs, urls, processed_count, app_albums,
                                    progress_stats,
                                    enumerated_total>>

\* album_command
album_command ==
    /\ program = "bot" /\ accepts_update(pc)
    /\ \E args \in ArgLists :
        IF args = <<>>
        THEN /\ io' = [Quiet EXCEPT !.op = "album_command", !.replies = <<"usage">>]
             /\ UNCHANGED <<aside, program, pc, request_vars, processed_songs,
                            progress_stats, batch_vars,
                            enumerated_total>>
        ELSE /\ processed_songs' = processed_songs_clear
             /\ IF ~is_album_id(args[1])
                THEN /\ io' = [Quiet EXCEPT !.op = "album_command",
                                            !.arg = args[1],
                                            !.replies = <<"wrong_kind">>]
                     /\ UNCHANGED <<aside, program, pc, request_vars, progress_stats,
                                    batch_vars, enumerated_total>>
                ELSE /\ io' = [Quiet EXCEPT !.op = "album_command",
                                            !.arg = args[1],
                                            !.replies = <<"processing">>]
                     /\ pc' = "ids"
                     /\ handler' = "album"
                     /\ ids' = <<args[1]>>
                     /\ total_ids' = 1
                     /\ UNCHANGED batch_vars
                     /\ UNCHANGED <<aside, program, album_urls, songs,
                                    total_songs, urls, processed_count, app_albums,
                                    progress_stats,
                                    enumerated_total>>

\* handle_text_message, to the start of its loop
handle_text_message ==
    /\ program = "bot" /\ accepts_update(pc)
    /\ \E found \in IdLists, delivered \in BOOLEAN :
        /\ processed_songs' = processed_songs_clear
        /\ IF found = <<>>
           THEN /\ io' = [Quiet EXCEPT !.op = "handle_text_message",
                                       !.replies = <<"no_ids">>]
                /\ UNCHANGED <<aside, program, pc, request_vars, progress_stats,
                               batch_vars, enumerated_total>>
           ELSE /\ io' = [Quiet EXCEPT
                            !.op = "handle_text_message",
                            !.replies = <<"found">>,
                            !.logs = progress_logs(delivered),
                            !.progress = {send_admin_progress(0, Len(found),
                                            "batch_progress", progress_stats)}]
                /\ pc' = "ids"
                /\ handler' = "text"
                /\ ids' = found
                /\ total_ids' = Len(found)
                /\ UNCHANGED batch_vars
                /\ UNCHANGED <<aside, program, album_urls, songs,
                               total_songs, urls, processed_count, app_albums,
                               progress_stats, enumerated_total>>

\* document.mime_type, as the words between its separators; <<>> when the
\* document has none
MimeTypes == {<<>>, <<"text", "plain">>, <<"application", "pdf">>}

\* a plausible slip: every document is taken for a text file
is_text_file_always(mime_type) == TRUE

\* not (not document.mime_type or 'text' not in document.mime_type)
is_text_file(mime_type) ==
    mime_type # <<>> /\ \E i \in DOMAIN mime_type : mime_type[i] = "text"

\* handle_document, to the start of its loop
handle_document ==
    /\ program = "bot" /\ accepts_update(pc)
    /\ \E mime_type \in MimeTypes, found \in IdLists, delivered \in BOOLEAN :
        IF ~is_text_file(mime_type)
        THEN /\ io' = [Quiet EXCEPT !.op = "handle_document",
                                    !.mime = mime_type,
                                    !.replies = <<"not_text">>]
             /\ UNCHANGED <<aside, program, pc, request_vars, processed_songs,
                            progress_stats, batch_vars,
                            enumerated_total>>
        ELSE /\ processed_songs' = processed_songs_clear
             /\ IF found = <<>>
                THEN /\ io' = [Quiet EXCEPT !.op = "handle_document",
                                            !.mime = mime_type,
                                            !.replies = <<"no_ids">>]
                     /\ UNCHANGED <<aside, program, pc, request_vars, progress_stats,
                                    batch_vars, enumerated_total>>
                ELSE /\ io' = [Quiet EXCEPT
                                 !.op = "handle_document",
                                 !.mime = mime_type,
                                 !.replies = <<"found">>,
                                 !.logs = progress_logs(delivered),
                                 !.progress = {send_admin_progress(0, Len(found),
                                                 "file_progress", progress_stats)}]
                     /\ pc' = "ids"
                     /\ handler' = "document"
                     /\ ids' = found
                     /\ total_ids' = Len(found)
                     /\ UNCHANGED batch_vars
                     /\ UNCHANGED <<aside, program, album_urls, songs,
                                    total_songs, urls, processed_count, app_albums,
                                    progress_stats, enumerated_total>>

\* process_id, to the start of its loop over the album URLs
process_id ==
    /\ program = "bot" /\ pc = "ids" /\ ids # <<>>
    /\ \E found \in AlbumUrlLists :
        /\ ids' = Tail(ids)
        /\ album_urls' = found
        /\ pc' = IF found = <<>> THEN "ids" ELSE "albums"
        /\ io' = [Quiet EXCEPT
                    !.op = "process_id",
                    !.calls = process_id_calls(Head(ids))]
    /\ UNCHANGED <<aside, program, handler, total_ids, songs, total_songs, urls,
                   processed_count, app_albums, processed_songs, progress_stats,
                   batch_vars, enumerated_total>>

\* process_album with the album record resolved to the songs l
album_resolved(l, delivered) ==
    /\ album_urls' = Tail(album_urls)
    /\ songs' = l
    /\ enumerated_total' = enumerated_total + Len(l)
    /\ enumerated' = enumerated + Len(l)
    /\ IF l = <<>>
       THEN /\ pc' = after_album(Tail(album_urls))
            /\ io' = [Quiet EXCEPT !.op = "process_album",
                                   !.calls = {"get_album_metadata"}]
            /\ UNCHANGED total_songs
       ELSE /\ pc' = "songs"
            /\ total_songs' = Len(l)
            /\ io' = [Quiet EXCEPT
                        !.op = "process_album",
                        !.calls = {"get_album_metadata"},
                        !.logs = progress_logs(delivered),
                        !.progress = {send_admin_progress(0, Len(l),
                                        "album_progress", progress_stats)}]
    /\ UNCHANGED <<aside, program, handler, ids, total_ids, urls,
                   processed_count, app_albums, processed_songs, progress_stats,
                   sent, handled, earlier>>

\* process_album, to the start of its loop over the songs
process_album ==
    /\ program = "bot" /\ pc = "albums" /\ album_urls # <<>>
    /\ \E primary \in PrimaryAnswers, delivered \in BOOLEAN :
        IF primary.ok /\ valid_songs(primary.songs) # <<>>
        THEN album_resolved(get_album_metadata(primary, <<>>), delivered)
        ELSE \E fallback \in FallbackAnswers :
                album_resolved(get_album_metadata(primary, fallback), delivered)

\* What one call of a song processor does: the new progress_stats and
\* processed_songs, and what it sent where.
SongResult(stats, processed) ==
    [stats |-> stats, processed |-> processed, outcome |-> "",
     attempts |-> <<>>, audio |-> FALSE, audio_size |-> 0, logs |-> {},
     progress |-> {}, steps |-> <<>>, files |-> {}]

\* a plausible slip: the identifier is not put into the set
processed_songs_add_nothing(song_id, processed) == processed

\* if song_id: self.processed_songs.add(song_id)
processed_songs_add(song_id, processed) ==
    IF song_id # NoId THEN processed \cup {song_id} ELSE processed

\* a plausible slip: the notification has no try of its own and raises when
\* Telegram refuses the message
send_logs_notification_raising(delivered) == delivered

\* send_logs_notification: whether the call returns to its caller.  Its
\* body stands in try/except Exception, which only logs the failure.
send_logs_notification(delivered) == TRUE

\* process_song_downloads.  thumb is TRUE when the song or its album has an
\* image and its download put a file under thumbnails/; resp answers the GET
\* of download_urls[0]; send_ok is FALSE when the code between the download
\* and the success notification (building the caption, send_audio) raises.
\* files are the files of the song left on disk when the call returns.
process_song_downloads(song, processed, stats, thumb, resp, send_ok, delivered, current, total) ==
    LET song_id == song.id
        download_urls == get_download_urls(song)
    IN  IF is_duplicate(song_id, processed)
        THEN [SongResult(Bump(stats, "duplicates"), processed) EXCEPT
                !.outcome = "duplicate", !.logs = {"DUPLICATE"}]
        ELSE IF download_urls = <<>>
        THEN [SongResult(Bump(stats, "skipped"), processed) EXCEPT
                !.outcome = "skipped"]
        ELSE
        LET marked == processed_songs_add(song_id, processed)
            counted == Bump(stats, "processed")
            shown == {send_admin_progress(current, total, "album_progress", counted)}
            d == download_file(resp)
            tried == <<Attempt(download_urls[1], resp, d)>>
        IN  IF ~d.ok
            THEN [SongResult(counted, marked) EXCEPT
                    !.outcome = "download_failed", !.attempts = tried,
                    !.logs = progress_logs(delivered), !.progress = shown,
                    !.steps = <<"download">>,
                    !.files = (IF thumb THEN {"thumbnail"} ELSE {}) \cup
                              (IF leaves_file(resp) THEN {"audio"} ELSE {})]
            ELSE IF send_ok /\ send_logs_notification(delivered)
            THEN [SongResult(Bump(counted, "downloaded"), marked) EXCEPT
                    !.outcome = "downloaded", !.attempts = tried,
                    !.audio = TRUE, !.audio_size = d.written,
                    !.logs = progress_logs(delivered) \cup {"SUCCESS"},
                    !.progress = shown,
                    !.steps = <<"download", "upload">>]
            ELSE IF send_ok
            THEN [SongResult(Bump(Bump(counted, "downloaded"), "failed"), marked)
                    EXCEPT
                    !.outcome = "failed", !.attempts = tried,
                    !.audio = TRUE, !.audio_size = d.written,
                    !.logs = progress_logs(delivered) \cup {"ERROR"},
                    !.progress = shown,
                    !.steps = <<"download", "upload">>, !.files = {"audio"}]
            ELSE [SongResult(Bump(counted, "failed"), marked) EXCEPT
                    !.outcome = "failed", !.attempts = tried,
                    !.logs = progress_logs(delivered) \cup {"ERROR"},
                    !.progress = shown,
                    !.steps = <<"download", "upload">>, !.files = {"audio"}]

\* the step of process_album's loop: one call of process_song_downloads
song_downloads ==
    /\ program = "bot" /\ pc = "songs" /\ songs # <<>>
    /\ \E thumb \in BOOLEAN, resp \in Responses, send_ok \in BOOLEAN,
          delivered \in BOOLEAN :
        \E song \in {Head(songs)} :
        \E r \in {process_song_downloads(song, processed_songs, progress_stats,
                    thumb, resp, send_ok, delivered,
                    total_songs - Len(songs) + 1, total_songs)} :
            /\ processed_songs' = r.processed
            /\ progress_stats' = r.stats
            /\ io' = [Quiet EXCEPT
                        !.op = "process_song_downloads", !.song = song.id,
                        !.repeat = song.id \in handled,
                        !.known = song.id \in earlier,
                        !.outcome = r.outcome, !.attempts = r.attempts,
                        !.audio = r.audio, !.audio_size = r.audio_size,
                        !.logs = r.logs, !.progress = r.progress,
                        !.steps = r.steps, !.files = r.files]
            /\ sent' = IF r.audio /\ song.id # NoId
                       THEN [sent EXCEPT ![song.id] = @ + 1] ELSE sent
            /\ Present(song)
    /\ songs' = Tail(songs)
    /\ UNCHANGED <<aside, program, pc, handler, ids, total_ids, album_urls,
                   total_songs, urls, processed_count, app_albums,
                   enumerated_total>>

\* the end of process_album: the completion message to the admin
album_completed ==
    /\ program = "bot" /\ pc = "songs" /\ songs = <<>>
    /\ pc' = after_album(album_urls)
    /\ total_songs' = 0
    /\ \E delivered \in BOOLEAN :
        io' = [Quiet EXCEPT
                !.op = "process_album", !.logs = progress_logs(delivered),
                !.progress = {send_admin_progress(total_songs, total_songs,
                                "album_progress", progress_stats)}]
    /\ UNCHANGED <<aside, program, handler, ids, total_ids, album_urls, songs, urls,
                   processed_count, app_albums, processed_songs, progress_stats,
                   batch_vars, enumerated_total>>

\* the end of music_command, album_command, handle_text_message and
\* handle_document: the reply, and for the last two the final progress
request_completed ==
    /\ program = "bot" /\ pc = "ids" /\ ids = <<>>
    /\ pc' = "idle"
    /\ handler' = "none"
    /\ total_ids' = 0
    /\ IF handler \in {"text", "document"}
       THEN \E delivered \in BOOLEAN :
              io' = [Quiet EXCEPT
                        !.op = "request_completed", !.replies = <<"finished">>,
                        !.logs = progress_logs(delivered),
                        !.progress = {send_admin_progress(total_ids, total_ids,
                                        IF handler = "text" THEN "batch_progress"
                                        ELSE "file_progress", progress_stats)}]
       ELSE /\ io' = [Quiet EXCEPT !.op = "request_completed",
                                   !.replies = <<"completed">>]
    /\ EndBatch
    /\ UNCHANGED <<aside, program, ids, album_urls, songs, total_songs, urls,
                   processed_count, app_albums, processed_songs, progress_stats,
                   enumerated_total>>

\* ------------------------------------------------ bot.py: the /get path
\* extract_urls_from_text keeps what matches .../(song|album)/..., each URL
\* once.  A URL is modelled by its kind, which is all get_command looks at;
\* two entries of a list are two different URLs, of the same kind or not.
UrlLists == SeqsUpTo({"song", "album"}, MaxIds)

\* is_song_url: '/song/' in url.lower()
is_song_url(url) == url = "song"

\* is_album_url: '/album/' in url.lower()
is_album_url(url) == url = "album"

\* get_command, to the start of its loop over the URLs
get_command ==
    /\ program = "bot" /\ accepts_update(pc)
    /\ \E replied \in {"nothing", "no_document", "document"},
          mime_type \in MimeTypes, found \in UrlLists, delivered \in BOOLEAN :
        IF replied # "document"
        THEN /\ io' = [Quiet EXCEPT !.op = "get_command", !.replies = <<replied>>]
             /\ UNCHANGED <<aside, program, pc, request_vars, processed_songs,
                            progress_stats, batch_vars, enumerated_total>>
        ELSE IF ~is_text_file(mime_type)
        THEN /\ io' = [Quiet EXCEPT !.op = "get_command", !.mime = mime_type,
                                    !.replies = <<"not_text">>]
             /\ UNCHANGED <<aside, program, pc, request_vars, processed_songs,
                            progress_stats, batch_vars, enumerated_total>>
        ELSE IF found = <<>>
        THEN /\ io' = [Quiet EXCEPT !.op = "get_command", !.mime = mime_type,
                                    !.replies = <<"no_urls">>]
             /\ UNCHANGED <<aside, program, pc, request_vars, processed_songs,
                            progress_stats, batch_vars, enumerated_total>>
        ELSE /\ processed_songs' = processed_songs_clear
             /\ io' = [Quiet EXCEPT
                         !.op = "get_command", !.mime = mime_type,
                         !.replies = <<"found">>,
                         !.logs = progress_logs(delivered),
                         !.progress = {send_admin_progress(0, Len(found),
                                         "url_progress", progress_stats)}]
             /\ pc' = "urls"
             /\ handler' = "get"
             /\ urls' = found
             /\ total_ids' = Len(found)
             /\ processed_count' = 0
             /\ UNCHANGED <<aside, program, ids, album_urls, songs, total_songs,
                            app_albums, progress_stats, batch_vars,
                            enumerated_total>>

\* one turn of get_command's loop that ends without an album: the song URL
\* gave no album URL, or get_album_metadata gave no songs
get_url_unresolved(calls, reply) ==
    /\ urls' = Tail(urls)
    /\ io' = [Quiet EXCEPT
                !.op = "get_command", !.calls = calls,
                !.replies = (IF total_ids > 3 THEN <<"processing_url">> ELSE <<>>)
                            \o <<reply>>]
    /\ UNCHANGED <<aside, program, pc, handler, ids, total_ids, album_urls, songs,
                   total_songs, processed_count, app_albums, processed_songs,
                   progress_stats, batch_vars, enumerated_total>>

\* one turn of get_command's loop, to the start of the loop over the songs l
get_url_resolved(calls, l, delivered) ==
    /\ urls' = Tail(urls)
    /\ songs' = l
    /\ total_songs' = Len(l)
    /\ pc' = "gsongs"
    /\ enumerated_total' = enumerated_total + Len(l)
    /\ enumerated' = enumerated + Len(l)
    /\ io' = [Quiet EXCEPT
                !.op = "get_command", !.calls = calls,
                !.replies = (IF total_ids > 3 THEN <<"processing_url">> ELSE <<>>)
                            \o <<"album">>,
                !.logs = progress_logs(delivered),
                !.progress = {send_admin_progress(total_ids - Len(urls) + 1,
                                total_ids, "url_progress", progress_stats)}]
    /\ UNCHANGED <<aside, program, handler, ids, total_ids, album_urls,
                   processed_count, app_albums, processed_songs, progress_stats,
                   sent, handled, earlier>>

\* the body of get_command's loop up to the songs
get_url ==
    /\ program = "bot" /\ pc = "urls" /\ urls # <<>>
    /\ \E album_found \in BOOLEAN, primary \in PrimaryAnswers,
          delivered \in BOOLEAN :
        LET url == Head(urls)
            calls == IF is_song_url(url)
                     THEN {"get_album_url_from_song", "get_album_metadata"}
                     ELSE {"get_album_metadata"}
        IN  IF is_song_url(url) /\ ~album_found
            THEN get_url_unresolved({"get_album_url_from_song"}, "no_album_from_song")
            ELSE IF ~is_song_url(url) /\ ~is_album_url(url)
            THEN get_url_unresolved({}, "unknown_url")
            ELSE IF primary.ok /\ valid_songs(primary.songs) # <<>>
            THEN get_url_resolved(calls, get_album_metadata(primary, <<>>),
                                  delivered)
            ELSE \E fallback \in FallbackAnswers :
                    IF get_album_metadata(primary, fallback) = <<>>
                    THEN get_url_unresolved(calls, "no_album_data")
                    ELSE get_url_resolved(calls,
                            get_album_metadata(primary, fallback), delivered)

\* "Try each URL until one works": the attempts from the i-th URL on
RECURSIVE try_each_url(_, _, _)
try_each_url(download_urls, resps, i) ==
    IF i > Len(download_urls) THEN <<>>
    ELSE LET d == download_file(resps[i])
             a == Attempt(download_urls[i], resps[i], d)
         IN  IF d.ok THEN <<a>>
             ELSE <<a>> \o try_each_url(download_urls, resps, i + 1)

\* process_song_from_album.  resps[i] answers the GET of download_urls[i];
\* send_ok is FALSE when send_audio raises.
process_song_from_album(song, processed, stats, resps, send_ok) ==
    LET download_urls == get_download_urls(song)
        tried == try_each_url(download_urls, resps, 1)
    IN  IF download_urls = <<>>
        THEN [SongResult(Bump(stats, "failed"), processed) EXCEPT
                !.outcome = "no_urls"]
        ELSE IF ~tried[Len(tried)].ok
        THEN [SongResult(Bump(stats, "failed"), processed) EXCEPT
                !.outcome = "download_failed", !.attempts = tried,
                !.steps = <<"download">>,
                !.files = IF \E i \in DOMAIN resps : leaves_file(resps[i])
                          THEN {"audio"} ELSE {}]
        ELSE IF send_ok
        THEN [SongResult(Bump(Bump(stats, "downloaded"), "processed"), processed)
                EXCEPT !.outcome = "downloaded", !.attempts = tried,
                       !.audio = TRUE, !.audio_size = tried[Len(tried)].written,
                       !.steps = <<"download", "upload">>]
        ELSE [SongResult(Bump(stats, "failed"), processed) EXCEPT
                !.outcome = "failed", !.attempts = tried,
                !.steps = <<"download", "upload">>]

\* the step of get_command's inner loop: one call of process_song_from_album
song_from_album ==
    /\ program = "bot" /\ pc = "gsongs" /\ songs # <<>>
    /\ \E resps \in [1..Len(get_download_urls(Head(songs))) -> Responses],
          send_ok \in BOOLEAN :
        \E song \in {Head(songs)} :
        \E r \in {process_song_from_album(song, processed_songs, progress_stats,
                    resps, send_ok)} :
            /\ processed_songs' = r.processed
            /\ progress_stats' = r.stats
            /\ io' = [Quiet EXCEPT
                        !.op = "process_song_from_album", !.song = song.id,
                        !.uploaded = io.uploaded + (IF r.audio THEN 1 ELSE 0),
                        !.repeat = song.id \in handled,
                        !.known = song.id \in earlier,
                        !.outcome = r.outcome, !.attempts = r.attempts,
                        !.audio = r.audio, !.audio_size = r.audio_size,
                        !.logs = r.logs, !.progress = r.progress,
                        !.steps = r.steps, !.files = r.files]
            /\ sent' = IF r.audio /\ song.id # NoId
                       THEN [sent EXCEPT ![song.id] = @ + 1] ELSE sent
            /\ Present(song)
    /\ songs' = Tail(songs)
    /\ UNCHANGED <<aside, program, pc, handler, ids, total_ids, album_urls,
                   total_songs, urls, processed_count, app_albums,
                   enumerated_total>>

\* the end of a turn of get_command's loop: the album is reported complete
get_album_completed ==
    /\ program = "bot" /\ pc = "gsongs" /\ songs = <<>>
    /\ pc' = "urls"
    /\ processed_count' = processed_count + 1
    /\ total_songs' = 0
    /\ io' = [Quiet EXCEPT !.op = "get_command",
                            !.replies = <<"album_complete">>,
                            !.count = total_songs, !.uploaded = io.uploaded]
    /\ UNCHANGED <<aside, program, handler, ids, total_ids, album_urls, songs, urls,
                   app_albums, processed_songs, progress_stats, batch_vars,
                   enumerated_total>>

\* the end of get_command
get_completed ==
    /\ program = "bot" /\ pc = "urls" /\ urls = <<>>
    /\ pc' = "idle"
    /\ handler' = "none"
    /\ total_ids' = 0
    /\ processed_count' = 0
    /\ \E delivered \in BOOLEAN :
        io' = [Quiet EXCEPT
                !.op = "request_completed", !.replies = <<"all_processed">>,
                !.logs = progress_logs(delivered),
                !.progress = {send_admin_progress(total_ids, total_ids,
                                "url_progress", progress_stats)}]
    /\ EndBatch
    /\ UNCHANGED <<aside, program, ids, album_urls, songs, total_songs, urls,
                   app_albums, processed_songs, progress_stats,
                   enumerated_total>>

\* ------------------------------------------------ app.py: handle_txt
\* the songs of the FTM result API: 'downloadUrl' is one URL
AppSongA == [id |-> "sA", downloadUrl |-> Url320]
AppSongB == [id |-> "sB", downloadUrl |-> UrlFlac]
AppCatalog == {AppSongA, AppSongB}
AppSongLists == SeqsUpTo(AppCatalog, Min(MaxSongs, Room))

\* the non-empty lines of the .txt: the k-th album link is named k
AlbumLinkLists == {[i \in 1..k |-> i] : k \in 0..MaxAlbums}

\* handle_txt, to the start of its loop over the album links
handle_txt ==
    /\ program = "app" /\ accepts_update(pc)
    /\ \E ends_with_txt \in BOOLEAN, album_links \in AlbumLinkLists :
        IF ~ends_with_txt
        THEN /\ io' = [Quiet EXCEPT !.op = "handle_txt", !.replies = <<"not_txt">>]
             /\ UNCHANGED <<pc, request_vars>>
        ELSE /\ io' = [Quiet EXCEPT !.op = "handle_txt", !.replies = <<"found">>]
             /\ pc' = "app_albums"
             /\ handler' = "txt"
             /\ app_albums' = album_links
             /\ UNCHANGED <<ids, total_ids, album_urls, songs, total_songs, urls,
                            processed_count>>
    /\ UNCHANGED <<aside, program, processed_songs, progress_stats, batch_vars,
                   enumerated_total>>

\* one turn of the loop over the album links, to the loop over the songs:
\* the API call raises (api_ok is FALSE) or gives the songs l
app_album ==
    /\ program = "app" /\ pc = "app_albums" /\ app_albums # <<>>
    /\ \E api_ok \in BOOLEAN, l \in AppSongLists :
        LET got == IF api_ok THEN l ELSE <<>>
        IN  /\ songs' = got
            /\ total_songs' = Len(got)
            /\ pc' = IF got = <<>> THEN "app_albums" ELSE "app_songs"
            /\ enumerated_total' = enumerated_total + Len(got)
            /\ enumerated' = enumerated + Len(got)
    /\ app_albums' = Tail(app_albums)
    /\ io' = [Quiet EXCEPT !.op = "handle_txt", !.calls = {"API_URL"}]
    /\ UNCHANGED <<aside, program, handler, ids, total_ids, album_urls, urls,
                   processed_count, processed_songs, progress_stats, sent,
                   handled, earlier>>

\* convert_to_mp3(tmp_song.name) stands outside every try of handle_txt:
\* whether the handler goes on after the call
convert_returns(convert_ok) == convert_ok

\* what can happen inside embed_metadata: every frame and the cover are
\* written ("full"); the cover cannot be fetched, the inner try logs it and
\* the text frames are saved ("partial"); a frame or audio.save raises and
\* the outer try logs it ("none")
Taggings == {"full", "partial", "none"}

\* a plausible slip: the outer try of embed_metadata is missing
embed_metadata_raising(tagging) ==
    [returns |-> tagging # "none", tags |-> tagging]

\* embed_metadata: whether it returns to its caller, and the tags in the file
embed_metadata(tagging) == [returns |-> TRUE, tags |-> tagging]

\* The body of the loop over the songs, for one song.  resp answers the GET
\* of download_song; convert_ok is FALSE when convert_to_mp3 raises, tagging
\* is what happens inside embed_metadata, send_ok is FALSE when send_audio
\* raises.  files are the temporary files of the song left on disk.
handle_txt_song(song, resp, convert_ok, tagging, send_ok) ==
    LET d == download_song(resp)
        e == embed_metadata(tagging)
        tried == <<Attempt(song.downloadUrl, resp, d)>>
        base == [outcome |-> "", attempts |-> tried, audio |-> FALSE,
                 audio_size |-> 0, goes_on |-> TRUE, replies |-> <<"starting">>,
                 steps |-> <<"download">>, tags |-> "", files |-> {"tmp_song"}]
    IN  IF ~d.ok
        THEN [base EXCEPT !.outcome = "download_failed"]
        ELSE IF ~convert_returns(convert_ok)
        THEN [base EXCEPT !.outcome = "convert_failed", !.goes_on = FALSE,
                          !.steps = <<"download", "convert">>]
        ELSE IF ~e.returns
        THEN [base EXCEPT !.outcome = "tag_failed", !.goes_on = FALSE,
                          !.steps = <<"download", "convert", "tag">>,
                          !.files = {"mp3_file"}]
        ELSE IF send_ok
        THEN [base EXCEPT !.outcome = "uploaded", !.audio = TRUE,
                          !.audio_size = d.written,
                          !.replies = <<"starting", "finished">>,
                          !.steps = <<"download", "convert", "tag", "upload">>,
                          !.tags = e.tags, !.files = {}]
        ELSE [base EXCEPT !.outcome = "send_failed",
                          !.replies = <<"starting", "finished">>,
                          !.steps = <<"download", "convert", "tag", "upload">>,
                          !.tags = e.tags, !.files = {}]

\* the step of handle_txt's inner loop.  An exception that leaves handle_txt
\* ends the handler with the rest of its lists unprocessed (pc "app_raised").
app_song ==
    /\ program = "app" /\ pc = "app_songs" /\ songs # <<>>
    /\ \E resp \in Responses, convert_ok \in BOOLEAN, tagging \in Taggings,
          send_ok \in BOOLEAN :
        LET song == Head(songs)
            r == handle_txt_song(song, resp, convert_ok, tagging, send_ok)
        IN  /\ io' = [Quiet EXCEPT
                        !.op = "handle_txt_song", !.song = song.id,
                        !.repeat = song.id \in handled,
                        !.known = song.id \in earlier,
                        !.outcome = r.outcome, !.attempts = r.attempts,
                        !.audio = r.audio, !.audio_size = r.audio_size,
                        !.replies = r.replies, !.steps = r.steps,
                        !.tags = r.tags, !.files = r.files]
            /\ sent' = IF r.audio THEN [sent EXCEPT ![song.id] = @ + 1] ELSE sent
            /\ Present(song)
            /\ IF r.goes_on
               THEN /\ songs' = Tail(songs)
                    /\ pc' = IF Tail(songs) = <<>> THEN "app_albums" ELSE "app_songs"
               ELSE /\ songs' = Tail(songs)
                    /\ pc' = "app_raised"
    /\ UNCHANGED <<aside, program, handler, ids, total_ids, album_urls, total_songs,
                   urls, processed_count, app_albums, processed_songs,
                   progress_stats, enumerated_total>>

\* the end of handle_txt: its loops are through, or an exception left it
\* and the Application logged it
handle_txt_ended ==
    /\ program = "app"
    /\ \/ pc = "app_albums" /\ app_albums = <<>>
       \/ pc = "app_raised"
    /\ pc' = "idle"
    /\ handler' = "none"
    /\ songs' = <<>>
    /\ total_songs' = 0
    /\ app_albums' = <<>>
    /\ io' = [Quiet EXCEPT !.op = "request_completed"]
    /\ EndBatch
    /\ UNCHANGED <<aside, program, ids, total_ids, album_urls, urls, processed_count,
                   processed_songs, progress_stats, enumerated_total>>

AppNext ==
    \/ handle_txt
    \/ app_album
    \/ app_song
    \/ handle_txt_ended

BotNext ==
    \/ music_command
    \/ album_command
    \/ handle_text_message
    \/ handle_document
    \/ process_id
    \/ process_album
    \/ song_downloads
    \/ album_completed
    \/ request_completed
    \/ get_command
    \/ get_url
    \/ song_from_album
    \/ get_album_completed
    \/ get_completed

Next == BotNext \/ AppNext

Spec == Init /\ [][Next]_vars

\* The batches of text messages and documents, one after the other.  A
\* handler is a coroutine the Application awaits: once the call it waits for
\* has returned or failed, it takes its next step.
BatchNext ==
    \/ handle_text_message \/ handle_document
    \/ process_id \/ process_album \/ song_downloads
    \/ album_completed \/ request_completed

BatchInit == Init /\ program = "bot"

\* a handler that has started runs on: the event loop resumes the coroutine
\* after each await, so the next step of its loops is taken; nothing says
\* that another message ever arrives
HandlerRuns ==
    \/ process_id \/ process_album \/ song_downloads
    \/ album_completed \/ request_completed

LiveSpec == BatchInit /\ [][BatchNext]_vars /\ WF_vars(HandlerRuns)

\* ------------------------------- bot.py: the resolver, call by call
\* What the album endpoint (get_album_by_id) leads to in one turn of the
\* loop over id_to_try: no data (an error, or success is not true), data
\* on which the code of the turn raises (inner_e), or the album's songs.
\* A song of the album is what the fallback reads of it: its 'id' and
\* whether it has a 'perma_url' or 'url'.
RawSongs ==
    {[id |-> "sA", url |-> TRUE], [id |-> "sC", url |-> FALSE],
     [id |-> NoId, url |-> TRUE]}
AlbumAnswers ==
    {[kind |-> k, songs |-> <<>>] : k \in {"error", "malformed"}}
        \cup {[kind |-> "data", songs |-> l] : l \in SeqsUpTo(RawSongs, MaxSongs)}

\* the 'downloadUrl' field of a song record: absent or empty, with a URL
\* get_download_urls accepts, with one it rejects
DownloadUrlFields == {<<>>, <<Url320>>, <<UrlBad>>}

\* what get_song_by_id returns: None (ok is FALSE), or the song's data
DetailAnswers ==
    {[ok |-> FALSE, downloadUrl |-> <<>>]}
        \cup {[ok |-> TRUE, downloadUrl |-> u] : u \in DownloadUrlFields}

\* what the FTM results endpoint answers: an error or no JSON object (ok is
\* FALSE), or an object with or without a name
ResultAnswers ==
    {[ok |-> FALSE, downloadUrl |-> <<>>, named |-> FALSE]}
        \cup {[ok |-> TRUE, downloadUrl |-> u, named |-> TRUE] :
                u \in DownloadUrlFields}
        \cup {[ok |-> TRUE, downloadUrl |-> <<Url320>>, named |-> FALSE]}

\* get_song_from_ftm_results: the song data, or None (ok is FALSE)
get_song_from_ftm_results(answer) ==
    IF answer.ok /\ answer.downloadUrl # <<>> /\ answer.named
    THEN [ok |-> TRUE, downloadUrl |-> answer.downloadUrl]
    ELSE [ok |-> FALSE, downloadUrl |-> <<>>]

\* what a call yielded, for the record of the calls: an error, no
\* downloadUrl, one without a URL get_download_urls accepts, or a usable one
Yield(ok, download_url) ==
    IF ~ok THEN "error"
    ELSE IF download_url = <<>> THEN "no_urls"
    ELSE IF get_download_urls([downloadUrl |-> download_url]) = <<>>
         THEN "unusable"
    ELSE "usable"

\* one call of an endpoint: for the attempt-th id_to_try (0: before the
\* fallback), for the entry-th song of the album (0: for the album)
Call(endpoint, attempt, entry, got) ==
    [endpoint |-> endpoint, attempt |-> attempt, entry |-> entry, got |-> got]

\* a plausible slip: the fallback is consulted whatever the FTM album
\* endpoint returned
after_primary_eager(primary) == "fallback"

\* a plausible slip: the except branch of get_album_metadata re-raises
after_primary_raising(primary) ==
    IF ~primary.ok THEN "raised"
    ELSE IF valid_songs(primary.songs) # <<>> THEN "record"
    ELSE "fallback"

\* get_album_metadata after the answer of the FTM album endpoint: return
\* the record, or go to get_album_metadata_fallback
after_primary(primary) ==
    IF primary.ok /\ valid_songs(primary.songs) # <<>> THEN "record"
    ELSE "fallback"

\* a handler of the ID path, to its loop over the identifiers
start_batch ==
    /\ program = "bot" /\ resolver.pc = "idle"
    /\ \E found \in IdLists \ {<<>>} :
        resolver' = [ResolverIdle EXCEPT !.pc = "id", !.ids = Len(found)]
    /\ UNCHANGED <<main_vars, admin_vars, routing, extraction, captioning,
                   sorting>>

\* the resolver between two lookups: what is left of the batch is kept
Between(r, then) ==
    [ResolverIdle EXCEPT !.pc = then, !.ids = r.ids, !.items = r.items,
                         !.passed_over = r.passed_over]

\* where the batch goes on after an album, or an identifier without albums
after_item(r) ==
    IF r.items > 0 THEN Between(r, "primary")
    ELSE IF r.ids > 0 THEN Between(r, "id")
    ELSE ResolverIdle

\* process_id, to its loop over the album URLs: get_album_by_id or
\* get_song_by_id returns None (an upstream error) or a record, in which
\* album URLs are found or not
resolve_identifier ==
    /\ resolver.pc = "id"
    /\ \E upstream_ok \in BOOLEAN, found \in AlbumUrlLists :
        LET album_urls_found == IF upstream_ok THEN Len(found) ELSE 0
            taken == [resolver EXCEPT !.ids = @ - 1, !.items = album_urls_found]
        IN  resolver' =
                IF album_urls_found = 0
                THEN after_item([taken EXCEPT !.passed_over = TRUE])
                ELSE after_item(taken)
    /\ UNCHANGED <<main_vars, admin_vars, routing, extraction, captioning,
                   sorting>>

\* get_album_metadata: the call of the FTM album endpoint
call_primary ==
    /\ resolver.pc = "primary"
    /\ \E primary \in PrimaryAnswers :
        LET call == Call("ftm_album", 0, 0,
                        IF ~primary.ok THEN "error"
                        ELSE IF primary.songs = <<>> THEN "no_urls"
                        ELSE IF valid_songs(primary.songs) = <<>> THEN "unusable"
                        ELSE "usable")
            then == after_primary(primary)
        IN  resolver' =
                IF then = "fallback"
                THEN [resolver EXCEPT !.pc = "fallback", !.calls = <<call>>]
                ELSE [resolver EXCEPT
                        !.pc = "returned", !.calls = <<call>>, !.result = then,
                        !.songs = IF then = "record"
                                  THEN valid_songs(primary.songs) ELSE <<>>]
    /\ UNCHANGED <<main_vars, admin_vars, routing, extraction, captioning,
                   sorting>>

\* get_album_metadata_fallback, to its loop over id_to_try: the album
\* identifier is cut out of the URL, or the URL does not end in one
start_fallback ==
    /\ resolver.pc = "fallback"
    /\ \E album_id_match \in BOOLEAN :
        resolver' =
            IF album_id_match
            THEN [resolver EXCEPT !.pc = "album", !.attempt = 1]
            ELSE [resolver EXCEPT !.pc = "returned", !.result = "none"]
    /\ UNCHANGED <<main_vars, admin_vars, routing, extraction, captioning,
                   sorting>>

\* the fallback after a turn of the loop over id_to_try that returned
\* nothing: the next of the two turns, or None
next_id_to_try(r) ==
    IF r.attempt < 2
    THEN [r EXCEPT !.pc = "album", !.attempt = @ + 1, !.raw = <<>>, !.entry = 0]
    ELSE [r EXCEPT !.pc = "returned", !.result = "none", !.raw = <<>>,
                   !.entry = 0]

\* a turn of the loop over id_to_try: the call of get_album_by_id
call_album_by_id ==
    /\ resolver.pc = "album"
    /\ \E a \in AlbumAnswers :
        LET call == Call("album_by_id", resolver.attempt, 0,
                        IF a.kind = "data" THEN "data" ELSE "error")
            called == [resolver EXCEPT !.calls = Append(@, call)]
        IN  resolver' =
                IF a.kind = "data" /\ a.songs # <<>>
                THEN [called EXCEPT !.pc = "songs", !.raw = a.songs, !.entry = 0,
                                    !.songs_with_urls = <<>>]
                ELSE next_id_to_try(called)
    /\ UNCHANGED <<main_vars, admin_vars, routing, extraction, captioning,
                   sorting>>

\* the loop over the songs of the album: a song without 'id' is passed
\* over, the others go to the song-detail endpoint; after the last one the
\* record is returned if a song got a downloadUrl
next_song ==
    /\ resolver.pc = "songs"
    /\ resolver' =
        IF resolver.raw = <<>>
        THEN IF resolver.songs_with_urls # <<>>
             THEN [resolver EXCEPT !.pc = "returned", !.result = "record",
                                   !.songs = resolver.songs_with_urls,
                                   !.entry = 0]
             ELSE next_id_to_try(resolver)
        ELSE IF Head(resolver.raw).id = NoId
        THEN [resolver EXCEPT !.raw = Tail(@), !.entry = @ + 1]
        ELSE [resolver EXCEPT !.pc = "detail", !.entry = @ + 1]
    /\ UNCHANGED <<main_vars, admin_vars, routing, extraction, captioning,
                   sorting>>

\* the song of the fallback's record, with the downloadUrl an endpoint gave
updated_song(song_id, download_url) ==
    [id |-> song_id, downloadUrl |-> download_url]

\* Step 1 of a song: the call of get_song_by_id
call_song_detail ==
    /\ resolver.pc = "detail"
    /\ \E d \in DetailAnswers :
        LET song == Head(resolver.raw)
            call == Call("song_detail", resolver.attempt, resolver.entry,
                        Yield(d.ok, d.downloadUrl))
            called == [resolver EXCEPT !.calls = Append(@, call)]
        IN  resolver' =
                IF d.ok /\ d.downloadUrl # <<>>
                THEN [called EXCEPT
                        !.pc = "songs", !.raw = Tail(@),
                        !.songs_with_urls =
                            Append(@, updated_song(song.id, d.downloadUrl))]
                ELSE IF song.url
                THEN [called EXCEPT !.pc = "results"]
                ELSE [called EXCEPT !.pc = "songs", !.raw = Tail(@)]
    /\ UNCHANGED <<main_vars, admin_vars, routing, extraction, captioning,
                   sorting>>

\* Step 2 of a song: the call of get_song_from_ftm_results
call_ftm_results ==
    /\ resolver.pc = "results"
    /\ \E f \in ResultAnswers :
        LET song == Head(resolver.raw)
            ftm_song_data == get_song_from_ftm_results(f)
            call == Call("ftm_results", resolver.attempt, resolver.entry,
                        Yield(ftm_song_data.ok, ftm_song_data.downloadUrl))
            called == [resolver EXCEPT !.calls = Append(@, call),
                                       !.pc = "songs", !.raw = Tail(@)]
        IN  resolver' =
                IF ftm_song_data.ok
                THEN [called EXCEPT
                        !.songs_with_urls =
                            Append(@, updated_song(song.id,
                                                   ftm_song_data.downloadUrl))]
                ELSE called
    /\ UNCHANGED <<main_vars, admin_vars, routing, extraction, captioning,
                   sorting>>

\* process_album after get_album_metadata: with a record the songs are
\* processed, without one (or on an exception, which its try catches) the
\* album is passed over; process_id goes on with its next album URL
album_returned ==
    /\ resolver.pc = "returned"
    /\ resolver' =
        after_item([resolver EXCEPT
                        !.items = @ - 1,
                        !.passed_over = @ \/ resolver.result # "record"])
    /\ UNCHANGED <<main_vars, admin_vars, routing, extraction, captioning,
                   sorting>>

ResolverNext ==
    \/ start_batch
    \/ resolve_identifier
    \/ call_primary
    \/ start_fallback
    \/ call_album_by_id
    \/ next_song
    \/ call_song_detail
    \/ call_ftm_results
    \/ album_returned

ResolverInit == Init /\ program = "bot"

ResolverSpec == ResolverInit /\ [][ResolverNext]_vars

\* ------------------------- bot.py: send_admin_progress, message by message
\* a plausible slip: the id of the fresh message is not stored
remember_nothing(messages, key, message_id) == messages

\* self.progress_messages[key] = sent_msg.message_id
remember(messages, key, message_id) == [messages EXCEPT ![key] = message_id]

\* One call of send_admin_progress.  A message id is the position of the
\* message in the admin's chat.  edit_ok and send_ok are what Telegram
\* answers to edit_message_text and to send_message; a send_message that
\* raises leaves the function through its outer except.
admin_progress ==
    /\ program = "bot"
    /\ \E key \in ProgressKeys, edit_ok \in BOOLEAN, send_ok \in BOOLEAN :
        LET remembered == progress_messages[key]
            known == remembered # NoMessage
            sends == ~known \/ ~edit_ok
            stored == sends /\ send_ok
            delivered == (known /\ edit_ok) \/ stored
            fresh == Len(admin_chat) + 1
        IN  /\ stored => Len(admin_chat) < MaxMessages
            /\ admin_chat' = IF stored THEN Append(admin_chat, key)
                             ELSE admin_chat
            /\ progress_messages' =
                    IF stored THEN remember(progress_messages, key, fresh)
                    ELSE progress_messages
            /\ progress_call' =
                    [key |-> key, remembered |-> remembered,
                     edited |-> IF known THEN remembered ELSE NoMessage,
                     edit |-> IF ~known THEN "none"
                              ELSE IF edit_ok THEN "ok" ELSE "failed",
                     send |-> IF ~sends THEN "none"
                              ELSE IF send_ok THEN "ok" ELSE "failed",
                     logs |-> progress_logs(delivered)]
    /\ UNCHANGED <<main_vars, resolver, routing, extraction, captioning,
                   sorting>>

ProgressNext == admin_progress

ProgressInit == Init /\ program = "bot"

ProgressSpec == ProgressInit /\ [][ProgressNext]_vars

\* ------------------------------ bot.py: process_id, identifier by identifier
\* The identifiers process_id is given: arguments and extracted tokens are
\* stripped and not empty.  Beside the two of IdPool, every string of up to
\* MaxIdLen characters over two digits, a letter and a hyphen.
IdChars == {"5", "6", "s", "-"}
RoutedIds == IdPool \cup (SeqsUpTo(IdChars, MaxIdLen) \ {<<>>})

\* process_id up to the call of its endpoint
process_id_called ==
    /\ program = "bot" /\ routing = NotRouting
    /\ \E id_str \in RoutedIds :
        routing' = [id |-> id_str, calls |-> process_id_calls(id_str)]
    /\ UNCHANGED <<main_vars, resolver, admin_vars, extraction, captioning,
                   sorting>>

\* process_id returns
process_id_returned ==
    /\ program = "bot" /\ routing # NotRouting
    /\ routing' = NotRouting
    /\ UNCHANGED <<main_vars, resolver, admin_vars, extraction, captioning,
                   sorting>>

RoutingNext == process_id_called \/ process_id_returned

RoutingInit == Init /\ program = "bot"

RoutingSpec == RoutingInit /\ [][RoutingNext]_vars

\* ---------------- bot.py: extract_ids_from_text, extract_urls_from_text
\* list(dict.fromkeys(l)): the first occurrence of every element, in order
RECURSIVE fromkeys(_, _)
fromkeys(l, seen) ==
    IF l = <<>> THEN <<>>
    ELSE IF Head(l) \in seen THEN fromkeys(Tail(l), seen)
    ELSE <<Head(l)>> \o fromkeys(Tail(l), seen \cup {Head(l)})

\* A stripped, non-empty line of a text of identifiers, by the pattern of
\* extract_ids_from_text it meets and the token the pattern's group would
\* capture: "Music ID: <token>", "Album: <token>", the token alone, a URL
\* whose path gives the token, or a separator, skip word or header.
ShortNumber == <<"1", "2", "3">>
LineTokens == IdPool \cup {ShortNumber}
IdLines ==
    {[form |-> f, token |-> t] :
        f \in {"music_label", "album_label", "alone", "url"}, t \in LineTokens}
    \cup {[form |-> "skipped", token |-> <<>>]}
IdTexts == SeqsUpTo(IdLines, MaxLines)

\* line.isdigit()
isdigit(token) == token # <<>> /\ \A i \in DOMAIN token : token[i] \in Digits

\* what one line adds to ids: <<>> or one identifier
line_ids(line) ==
    IF line.form = "music_label" THEN <<line.token>>
    ELSE IF line.form = "album_label"
    THEN IF is_album_id(line.token) THEN <<line.token>> ELSE <<>>
    ELSE IF line.form = "alone"
    THEN IF ~isdigit(line.token) \/ is_album_id(line.token)
         THEN <<line.token>> ELSE <<>>
    ELSE IF line.form = "url" THEN <<line.token>>
    ELSE <<>>

\* the loop over the lines of extract_ids_from_text, from the i-th line on
RECURSIVE ids_of_lines(_, _)
ids_of_lines(lines, i) ==
    IF i > Len(lines) THEN <<>>
    ELSE line_ids(lines[i]) \o ids_of_lines(lines, i + 1)

\* extract_ids_from_text
extract_ids_from_text(text) == fromkeys(ids_of_lines(text, 1), {})

\* A line of a text of URLs is its words; a word is a URL of one of the two
\* sites the patterns know, or something else (site "").
UrlWords ==
    {[site |-> "jiosaavn.com", path |-> "song/a"],
     [site |-> "saavn.com", path |-> "album/b"],
     [site |-> "", path |-> "hello"]}
UrlLines == SeqsUpTo(UrlWords, MaxWords) \ {<<>>}
UrlTexts == SeqsUpTo(UrlLines, MaxLines)

\* jiosaavn_patterns, by the site each pattern matches
jiosaavn_patterns == <<"jiosaavn.com", "saavn.com">>

\* re.findall(pattern, line): the words of the line the pattern matches
findall(site, line) == SelectSeq(line, LAMBDA w : w.site = site)

\* for pattern in jiosaavn_patterns: ... urls.append(match), from the
\* p-th pattern on
RECURSIVE line_urls(_, _)
line_urls(line, p) ==
    IF p > Len(jiosaavn_patterns) THEN <<>>
    ELSE findall(jiosaavn_patterns[p], line) \o line_urls(line, p + 1)

\* the loop over the lines of extract_urls_from_text, from the i-th line on
RECURSIVE urls_of_lines(_, _)
urls_of_lines(lines, i) ==
    IF i > Len(lines) THEN <<>>
    ELSE line_urls(lines[i], 1) \o urls_of_lines(lines, i + 1)

\* extract_urls_from_text
extract_urls_from_text(text) == fromkeys(urls_of_lines(text, 1), {})

\* a call of extract_ids_from_text
ids_extracted ==
    /\ program = "bot" /\ extraction = NotExtracting
    /\ \E text \in IdTexts :
        extraction' = [of |-> "ids", text |-> text,
                       returned |-> extract_ids_from_text(text)]
    /\ UNCHANGED <<main_vars, resolver, admin_vars, routing, captioning,
                   sorting>>

\* a call of extract_urls_from_text
urls_extracted ==
    /\ program = "bot" /\ extraction = NotExtracting
    /\ \E text \in UrlTexts :
        extraction' = [of |-> "urls", text |-> text,
                       returned |-> extract_urls_from_text(text)]
    /\ UNCHANGED <<main_vars, resolver, admin_vars, routing, captioning,
                   sorting>>

\* the caller goes on with the list
extraction_used ==
    /\ program = "bot" /\ extraction # NotExtracting
    /\ extraction' = NotExtracting
    /\ UNCHANGED <<main_vars, resolver, admin_vars, routing, captioning,
                   sorting>>

ExtractNext == ids_extracted \/ urls_extracted \/ extraction_used

ExtractInit == Init /\ program = "bot"

ExtractSpec == ExtractInit /\ [][ExtractNext]_vars

\* ------------------------------------------------ bot.py: format_caption
\* A value of the metadata is its characters: given is FALSE when the key is
\* missing or None, and a given value may be empty.
Missing == [given |-> FALSE, text |-> <<>>]
Given(text) == [given |-> TRUE, text |-> text]
SongId8 == <<"s", "_", "i", "N", "U", "k", "w", "V">>
AlbumId14 == <<"1", "4", "1", "0", "1", "4", "2", "6">>
Year2020 == <<"2", "0", "2", "0">>
Hindi == <<"h", "i", "n", "d", "i">>
Unknown == <<"U", "n", "k", "n", "o", "w", "n">>

\* a duration is missing, the text "Unknown" or a number of seconds
Durations ==
    {[kind |-> "missing", seconds |-> 0], [kind |-> "unknown", seconds |-> 0],
     [kind |-> "seconds", seconds |-> 0], [kind |-> "seconds", seconds |-> 225]}

\* the metadata format_caption is given
Metadata ==
    [songId : {Missing, Given(<<>>), Given(SongId8)},
     musicId : {Missing, Given(<<>>), Given(MusicId8)},
     albumId : {Missing, Given(<<>>), Given(AlbumId14)},
     year : {Missing, Given(<<>>), Given(Year2020)},
     language : {Missing, Given(<<>>), Given(Hindi)},
     duration : Durations]

\* the truth value of metadata.get(key)
truthy(value) == value.given /\ value.text # <<>>

\* song_id.replace('_', '-')
song_id_to_music_id(song_id) ==
    [i \in DOMAIN song_id |-> IF song_id[i] = "_" THEN "-" ELSE song_id[i]]

\* str(n) of a digit, and f"{n:02d}" of a number below 100
DigitChars == <<"0", "1", "2", "3", "4", "5", "6", "7", "8", "9">>
TwoDigits(n) == <<DigitChars[(n \div 10) + 1], DigitChars[(n % 10) + 1]>>

\* format_duration of a number of seconds: "Unknown" when it is not positive,
\* else f"{minutes}:{remaining_seconds:02d}"
format_duration(seconds) ==
    IF seconds <= 0 THEN Unknown
    ELSE <<DigitChars[(seconds \div 60) + 1], ":">> \o TwoDigits(seconds % 60)

\* A caption is its pieces: a labeled text f"{label}: {value}" or "\n".
Newline == [label |-> "\n", value |-> <<>>]
Labeled(label, value) == <<[label |-> label, value |-> value], Newline>>

\* a plausible slip: the caption is returned as it was built
rstrip_nothing(caption) == caption

\* caption.rstrip(): the values end with no white space, so what goes is the
\* newlines at the end
RECURSIVE rstrip(_)
rstrip(caption) ==
    IF caption # <<>> /\ caption[Len(caption)] = Newline
    THEN rstrip(SubSeq(caption, 1, Len(caption) - 1))
    ELSE caption

\* format_caption
format_caption(metadata) ==
    LET music == IF truthy(metadata.songId)
                 THEN Labeled("Music ID", song_id_to_music_id(metadata.songId.text))
                 ELSE IF truthy(metadata.musicId)
                 THEN Labeled("Music ID", metadata.musicId.text)
                 ELSE <<>>
        album == IF truthy(metadata.albumId)
                 THEN Labeled("Album", metadata.albumId.text) ELSE <<>>
        year == IF truthy(metadata.year)
                THEN Labeled("Year", metadata.year.text) ELSE <<>>
        language == IF truthy(metadata.language)
                    THEN Labeled("Language", metadata.language.text) ELSE <<>>
        duration == IF metadata.duration.kind = "seconds"
                       /\ metadata.duration.seconds # 0
                    THEN Labeled("Duration",
                                 format_duration(metadata.duration.seconds))
                    ELSE <<>>
    IN  rstrip(music \o album \o year \o language \o duration)

\* a song processor builds the caption of a song
caption_built ==
    /\ program = "bot" /\ ~captioning.called
    /\ \E metadata \in Metadata :
        captioning' = [called |-> TRUE, metadata |-> metadata,
                       caption |-> format_caption(metadata)]
    /\ UNCHANGED <<main_vars, resolver, admin_vars, routing, extraction,
                   sorting>>

\* and sends it with the audio
caption_sent ==
    /\ program = "bot" /\ captioning.called
    /\ captioning' = NotCaptioning
    /\ UNCHANGED <<main_vars, resolver, admin_vars, routing, extraction,
                   sorting>>

CaptionNext == caption_built \/ caption_sent

CaptionInit == Init /\ program = "bot"

CaptionSpec == CaptionInit /\ [][CaptionNext]_vars

\* ------------------------------------------ bot.py: sort_urls_by_quality
\* URLs as a catalog can give them, beside those of the songs: without a
\* bitrate in the name, and with digits in the name that read as a bitrate
UrlM4a == [name |-> "cdn/d.m4a", http |-> TRUE, marks |-> {}, ext |-> ".m4a"]
UrlFlac96 ==
    [name |-> "cdn/964/e.flac", http |-> TRUE, marks |-> {"96"}, ext |-> ".flac"]
UrlHigh ==
    [name |-> "cdn/f_high.mp3", http |-> TRUE, marks |-> {"high"}, ext |-> ".mp3"]
UrlPool == {Url320, Url160, UrlFlac, UrlMp3, UrlM4a, UrlFlac96, UrlHigh}
UrlSeqs == SeqsUpTo(UrlPool, MaxUrls)

\* a call of sort_urls_by_quality
urls_sorted ==
    /\ program = "bot" /\ ~sorting.called
    /\ \E given \in UrlSeqs :
        sorting' = [called |-> TRUE, urls |-> given,
                    returned |-> sort_urls_by_quality(given)]
    /\ UNCHANGED <<main_vars, resolver, admin_vars, routing, extraction,
                   captioning>>

\* get_download_urls returns the list
sorted_returned ==
    /\ program = "bot" /\ sorting.called
    /\ sorting' = NotSorting
    /\ UNCHANGED <<main_vars, resolver, admin_vars, routing, extraction,
                   captioning>>

SortNext == urls_sorted \/ sorted_returned

SortInit == Init /\ program = "bot"

SortSpec == SortInit /\ [][SortNext]_vars

\* ------------------------------------------------------------ properties
\* the steps that are one call of a bot.py song processor
SongOps == {"process_song_downloads", "process_song_from_album"}

\* the last step was a call of a bot.py song processor
SongStep == program = "bot" /\ io.op \in SongOps

\* the ranked candidate URLs of the song the last step processed
Candidates(song_id) ==
    get_download_urls(CHOOSE song \in Catalog : song.id = song_id)

\* downloaded + duplicates + failed + skipped, as the progress text shows them
Accounted(stats) ==
    stats["downloaded"] + stats["duplicates"] + stats["failed"] + stats["skipped"]

\* every download attempt of the last step failed, and there was one
AllAttemptsFailed(o) ==
    /\ o.attempts # <<>>
    /\ \A i \in 1..Len(o.attempts) : ~o.attempts[i].ok

\* C1: within one batch of bot.py no song identifier is sent to the
\* destination chat (send_audio) more than once, on the ID path and on the
\* /get path alike.
C1_UploadedOncePerBatch ==
    program = "bot" => \A i \in SongIds : sent[i] <= 1

\* C2: a song presented again in the same batch raises the duplicates counter
\* by exactly 1, changes no other counter and starts no download or upload;
\* a song seen for the first time in the batch leaves the duplicates counter
\* alone.  On every entry point of bot.py, /get included.
C2_RepeatCountsAsDuplicate ==
    [][(program = "bot" /\ io'.op \in SongOps) =>
          IF io'.repeat
          THEN /\ progress_stats' = Bump(progress_stats, "duplicates")
               /\ io'.attempts = <<>>
               /\ ~io'.audio
          ELSE progress_stats'["duplicates"] = progress_stats["duplicates"]]_vars

\* C3: every top-level request empties the processed-ID set before its first
\* song is examined, so no song is classified as a duplicate because of an
\* identifier handled in an earlier request; and the set is not emptied
\* (it never loses an identifier) at any other point inside a batch.
C3_ClearedAtRequestStartOnly ==
    [][/\ (pc = "idle" /\ pc' # "idle") => processed_songs' = {}
       /\ pc # "idle" => processed_songs \subseteq processed_songs'
       /\ io'.outcome = "duplicate" => io'.repeat]_vars

\* C3's case: a song handled in an earlier request is examined again in a
\* later one, for the first time in it, and is downloaded and uploaded
C3_KnownSongNotDuplicate ==
    /\ io.op = "process_song_downloads"
    /\ io.known /\ ~io.repeat
    /\ io.outcome = "downloaded"

\* the download attempts of a song step, without the claim about what
\* follows a failure: at most N of them, by non-increasing score, none
\* after a success
AttemptsRanked(o) ==
    /\ Len(o.attempts) <= Len(Candidates(o.song))
    /\ \A i \in 1..Len(o.attempts) :
        /\ o.attempts[i].url = Candidates(o.song)[i].name
        /\ i < Len(o.attempts) =>
            /\ ~o.attempts[i].ok
            /\ o.attempts[i].score >= o.attempts[i + 1].score

\* the next candidate is tried whenever an attempt fails
NextTriedOnFailure(o) ==
    ~o.attempts[Len(o.attempts)].ok => Len(o.attempts) = Len(Candidates(o.song))

\* C4 as stated: at most N attempts, by non-increasing score, the next
\* candidate tried whenever an attempt fails, none after the first success,
\* in process_song_downloads and in process_song_from_album.
C4_NextCandidateOnBothPaths ==
    (SongStep /\ io.attempts # <<>>) =>
        AttemptsRanked(io) /\ NextTriedOnFailure(io)

\* C4 amended: at most N attempts, by non-increasing score, none after the
\* first success, on both paths; process_song_from_album tries the next
\* candidate whenever an attempt fails, process_song_downloads attempts the
\* highest-ranked candidate only, whether it fails or not.
C4_RankedAttempts ==
    (SongStep /\ io.attempts # <<>>) =>
        /\ AttemptsRanked(io)
        /\ io.op = "process_song_from_album" => NextTriedOnFailure(io)
        /\ io.op = "process_song_downloads" => Len(io.attempts) = 1

\* C4's case: the best candidate of a song failed on the /get path and a
\* candidate of lower score was downloaded after it
C4_SecondCandidateDownloaded ==
    /\ io.op = "process_song_from_album"
    /\ Len(io.attempts) = 2
    /\ ~io.attempts[1].ok /\ io.attempts[2].ok
    /\ io.attempts[1].score > io.attempts[2].score

\* C5: a response that declares a content length above the cap is rejected
\* with a failure result before any byte is written, and nothing is uploaded
\* from it; for every audio download of bot.py and app.py.
C5_DeclaredOversizeRejected ==
    \A i \in 1..Len(io.attempts) :
        too_large(io.attempts[i].declared) =>
            /\ ~io.attempts[i].ok
            /\ io.attempts[i].written = 0

\* C6: a response without a content-length header whose body grows past the
\* cap is aborted mid-stream and reported as failed: the file never exceeds
\* the cap and no file larger than the cap is uploaded.
C6_StreamedOversizeAborted ==
    /\ \A i \in 1..Len(io.attempts) :
        (program = "bot" /\ io.attempts[i].declared = NoHeader
            /\ io.attempts[i].body > max_file_size) =>
                /\ ~io.attempts[i].ok
                /\ io.attempts[i].written <= max_file_size
    /\ (program = "bot" /\ io.audio) => io.audio_size <= max_file_size

\* C7 as stated: at every point of every batch, the second and later ones
\* of a process included, downloaded + duplicates + failed + skipped as
\* reported do not exceed the number of songs enumerated in that batch's
\* albums.
C7_SumWithinThisBatch ==
    (program = "bot" /\ pc # "idle") => Accounted(progress_stats) <= enumerated

\* C7 amended: at every point, downloaded + duplicates + failed + skipped as
\* reported do not exceed the number of songs enumerated in the albums of all
\* batches since the process started (the counters are never reset); in the
\* first batch of a process that is the number of that batch.
C7_SumWithinProcessLifetime ==
    /\ Accounted(progress_stats) <= enumerated_total
    /\ \A p \in io.progress :
        p.text.downloaded + p.text.duplicates + p.text.failed + p.text.skipped
            <= enumerated_total
    /\ (program = "bot" /\ earlier = {} /\ pc # "idle") =>
            Accounted(progress_stats) <= enumerated

\* C7's case: in a later batch every song enumerated so far is accounted
\* for, which is more than the songs of the batch
C7_LaterBatchAccounted ==
    /\ program = "bot" /\ pc # "idle" /\ earlier # {}
    /\ enumerated > 0
    /\ Accounted(progress_stats) = enumerated_total
    /\ Accounted(progress_stats) > enumerated

\* C8: each of the five progress counters starts at 0, never decreases,
\* changes only in steps of +1 and is never reset while the process runs.
C8_CountersMonotonic ==
    /\ \A k \in StatKeys : progress_stats[k] = 0
    /\ [][\A k \in StatKeys :
            progress_stats'[k] - progress_stats[k] \in {0, 1}]_vars

\* C8's case: after a request has ended with counters above 0, the next
\* request starts and the counters are what they were
C8_CountersKeptAcrossRequests ==
    /\ program = "bot" /\ pc # "idle" /\ earlier # {}
    /\ io.op \in {"music_command", "album_command", "handle_text_message",
                  "handle_document", "get_command"}
    /\ progress_stats["processed"] > 0

\* C9: when every download attempt of a song with at least one candidate
\* URL fails, the failed counter is raised exactly once for the song and a
\* failure notification for it goes to the logs channel, on the ID path and
\* on the /get path.
C9_FinalFailureCountedAndReported ==
    [][(program = "bot" /\ io'.op \in SongOps /\ AllAttemptsFailed(io')) =>
          /\ progress_stats'["failed"] = progress_stats["failed"] + 1
          /\ "ERROR" \in io'.logs]_vars

\* C10: a download or transcode failure of one song aborts only that song:
\* it is not uploaded, and a request ends only when every later song of the
\* album and every later album of the batch has been processed; in handle_txt
\* of app.py as in bot.py.
C10_FailureAbortsOnlyThatSong ==
    [][/\ io'.outcome \in {"download_failed", "convert_failed"} => ~io'.audio
       /\ (pc # "idle" /\ pc' = "idle") =>
            /\ songs = <<>> /\ app_albums = <<>>
            /\ album_urls = <<>> /\ ids = <<>> /\ urls = <<>>]_vars

\* C11: a failure while writing tags or fetching or embedding the cover art
\* never prevents the upload: after a successful download and transcode,
\* send_audio is attempted whether embed_metadata succeeded, partly
\* succeeded or failed.
C11_TaggingNeverBlocksUpload ==
    (io.op = "handle_txt_song"
        /\ io.outcome \notin {"download_failed", "convert_failed"}) =>
            /\ io.steps = <<"download", "convert", "tag", "upload">>
            /\ io.outcome \in {"uploaded", "send_failed"}

\* C11's case: embed_metadata failed as a whole and the song was uploaded
C11_UntaggedSongUploaded ==
    /\ io.op = "handle_txt_song"
    /\ io.tags = "none"
    /\ io.outcome = "uploaded" /\ io.audio

\* C12: whenever get_album_metadata, its fallback chain included, returns an
\* album record rather than None, the record's song list is non-empty and
\* get_download_urls is non-empty for every song of it.
C12_ReturnedSongsHaveUrls ==
    resolver.result = "record" =>
        /\ resolver.songs # <<>>
        /\ \A i \in 1..Len(resolver.songs) :
            get_download_urls(resolver.songs[i]) # <<>>

\* the i-th call of the lookup under way, and the calls before it
CallAt(i) == resolver.calls[i]
CallsBefore(i) == {resolver.calls[j] : j \in 1..(i - 1)}

C14_UpstreamFailureNeverFatal ==
    [][/\ resolver'.result \in {"", "none", "record"}
       /\ (resolver.pc # "returned" /\ resolver'.result = "none") =>
            /\ CallAt(1).got # "usable"
            /\ \/ resolver.pc = "fallback"
               \/ resolver'.attempt = 2
       /\ (resolver.pc \in {"returned", "id"}
                /\ resolver.items + resolver.ids > 1) =>
            /\ resolver'.pc \in {"primary", "id"}
            /\ resolver'.items + resolver'.ids =
                    resolver.items + resolver.ids - 1
                        + (IF resolver.pc = "id" THEN resolver'.items ELSE 0)]_vars

\* C14's case: after an album or an identifier of the batch was passed over
\* because every lookup for it failed, a later album is resolved
C14_LaterItemResolved ==
    /\ resolver.passed_over
    /\ resolver.pc = "returned" /\ resolver.result = "record"

\* the messages of the key that the admin's chat holds
SentFor(key) == {i \in DOMAIN admin_chat : admin_chat[i] = key}

\* the id of the most recently sent message of the key
LastSent(key) ==
    IF SentFor(key) = {} THEN NoMessage
    ELSE CHOOSE i \in SentFor(key) : \A j \in SentFor(key) : j <= i

\* C15 as stated: whenever the edit of the remembered progress message fails,
\* a fresh message is sent and its id replaces the remembered one.
C15_FailedEditAlwaysReplaced ==
    progress_call.edit = "failed" =>
        /\ progress_call.send = "ok"
        /\ progress_messages[progress_call.key] # progress_call.remembered

\* C15 amended: a key has at most one remembered id, and it is the id of the
\* most recently sent message of the key; an update of a remembered key
\* edits that message; when the edit fails one fresh message is attempted:
\* delivered, it is the only new message and its id replaces the remembered
\* one; not delivered, nothing is sent and the remembered id stays.
C15_FreshMessageReplacesRemembered ==
    /\ \A k \in ProgressKeys : progress_messages[k] = LastSent(k)
    /\ progress_call.key # "" =>
        LET c == progress_call
            newer == {i \in SentFor(c.key) : i > c.remembered}
        IN  /\ c.edited = c.remembered
            /\ (c.edit = "none") <=> (c.remembered = NoMessage)
            /\ (c.send = "none") <=> (c.edit = "ok")
            /\ c.send = "ok" =>
                    /\ newer = {Len(admin_chat)}
                    /\ progress_messages[c.key] = Len(admin_chat)
            /\ c.send # "ok" =>
                    /\ newer = {}
                    /\ progress_messages[c.key] = c.remembered

\* C15 happens: the edit of a remembered message failed and the fresh
\* message took its place
C15_FreshMessageRemembered ==
    /\ progress_call.edit = "failed"
    /\ progress_call.send = "ok"
    /\ progress_call.remembered # NoMessage
    /\ progress_messages[progress_call.key] > progress_call.remembered

\* C16: every progress update of bot.py and every per-song outcome of its
\* two paths puts a message into the logs channel: the progress text of the
\* type PROGRESS, also when the admin's message was not delivered, and a
\* message of the outcome's own type.
C16_EveryUpdateAndOutcomeLogged ==
    program = "bot" =>
        /\ io.progress # {} => "PROGRESS" \in io.logs
        /\ io.outcome # "" => io.logs \ {"PROGRESS"} # {}

\* C17: processing is strictly sequential.  A step handles the one song at
\* the head of the album's list; the songs of another album, the next album
\* URL, the next identifier or URL of the request are taken only when no
\* song of the current album is left; a request starts only when no request
\* is running and nothing of an earlier one is pending.
C17_StrictlySequential ==
    [][/\ songs' # songs =>
            \/ songs # <<>> /\ songs' = Tail(songs)
                            /\ io'.song = Head(songs).id
            \/ songs = <<>>
            \/ handler' = "none"
       /\ (\/ album_urls' # album_urls \/ ids' # ids \/ urls' # urls
           \/ app_albums' # app_albums) =>
            songs = <<>> \/ handler' = "none"
       /\ ids' # ids => album_urls = <<>>
       /\ handler' # handler => handler = "none" \/ handler' = "none"
       /\ (handler = "none" /\ handler' # "none") =>
            /\ pc = "idle" /\ songs = <<>> /\ album_urls = <<>>
            /\ ids = <<>> /\ urls = <<>> /\ app_albums = <<>>]_vars

\* C17 happens: the second song of an album is waiting while the first is
\* handled, and another album or identifier waits behind the album
C17_SongAndAlbumWaiting ==
    /\ io.song # NoId /\ io.outcome # ""
    /\ songs # <<>>
    /\ album_urls # <<>> \/ ids # <<>> \/ urls # <<>> \/ app_albums # <<>>

\* nothing of the running request is left to process
NothingPending ==
    /\ songs = <<>> /\ album_urls = <<>> /\ ids = <<>>
    /\ urls = <<>> /\ app_albums = <<>>

\* C18: a batch goes idle, resolving, per song downloading (tagging)
\* uploading, next song or complete.  A song is uploaded only in a step in
\* which its own download succeeded before, in app.py after convert and tag
\* as well; a download is made only for the song at the head of the list
\* that the resolution of its album produced; the completion of the batch is
\* reported only when nothing is pending, every song taken from the list
\* having reached an outcome.
C18_BatchStateMachine ==
    [][/\ io'.audio =>
            /\ io'.attempts # <<>>
            /\ io'.attempts[Len(io'.attempts)].ok
            /\ io'.steps = IF program = "app"
                           THEN <<"download", "convert", "tag", "upload">>
                           ELSE <<"download", "upload">>
       /\ io'.attempts # <<>> =>
            /\ handler # "none" /\ songs # <<>>
            /\ io'.song = Head(songs).id
            /\ io'.steps[1] = "download"
       /\ (songs = <<>> /\ songs' # <<>>) =>
            /\ io'.calls # {} /\ io'.attempts = <<>>
            /\ enumerated' = enumerated + Len(songs')
       /\ (songs # <<>> /\ handler' = handler /\ songs' # songs) =>
            /\ songs' = Tail(songs)
            /\ io'.song = Head(songs).id /\ io'.outcome # ""
       /\ (io'.op = "request_completed" /\ io'.replies # <<>>) =>
            NothingPending]_vars

\* C18 happens: a batch that enumerated songs and uploaded one is reported
\* complete
C18_BatchReportedComplete ==
    /\ io.op = "request_completed" /\ io.replies # <<>>
    /\ enumerated_total > 0
    /\ \E k \in StatKeys : k = "downloaded" /\ progress_stats[k] > 0

\* C19: when the processing of a song ends, whatever the outcome, none of
\* the files created for it (downloaded audio, transcoded audio, thumbnail)
\* is left on disk.
C19_NoTemporaryFileLeft ==
    io.outcome # "" => io.files = {}

\* the identifier consists only of digits and has at least 6 of them
SixDigitsOrMore(id_str) ==
    /\ Len(id_str) >= 6
    /\ {i \in DOMAIN id_str : id_str[i] \notin Digits} = {}

\* C20: process_id calls exactly one endpoint for an identifier: the album
\* endpoint if and only if the identifier consists only of digits and has
\* at least 6 of them, the song endpoint otherwise; "55666576" goes to the
\* album endpoint and "s-iNUkwV" to the song endpoint.
C20_RoutedToExactlyOnePath ==
    routing # NotRouting =>
        /\ Cardinality(routing.calls) = 1
        /\ routing.calls \subseteq {"get_album_by_id", "get_song_by_id"}
        /\ "get_album_by_id" \in routing.calls <=> SixDigitsOrMore(routing.id)
        /\ "get_song_by_id" \in routing.calls <=> ~SixDigitsOrMore(routing.id)
        /\ routing.id = AlbumId8 => routing.calls = {"get_album_by_id"}
        /\ routing.id = MusicId8 => routing.calls = {"get_song_by_id"}

\* C20 happens: an identifier of five digits went to the song endpoint
C20_FiveDigitsToSongEndpoint ==
    /\ Len(routing.id) = 5
    /\ \A i \in DOMAIN routing.id : routing.id[i] \in Digits
    /\ routing.calls = {"get_song_by_id"}

\* the last step was /music or /album with an argument
CommandWithArgument ==
    io.op \in {"music_command", "album_command"} /\ io.arg # <<>>

\* the command of the last step suits the kind of its argument
RightKind(o) ==
    (o.op = "album_command") <=> SixDigitsOrMore(o.arg)

\* the step touched nothing but the reply and the processed-ID set
RepliesOnly ==
    /\ UNCHANGED <<pc, request_vars, progress_stats, batch_vars,
                   enumerated_total>>
    /\ io'.calls = {} /\ io'.attempts = <<>> /\ ~io'.audio
    /\ io'.logs = {} /\ io'.progress = {}

\* C21 as stated: the command of the wrong kind for its argument replies
\* with the wrong-kind error and leaves the counters and the processed-ID
\* set unchanged.
C21_WrongKindLeavesSetUnchanged ==
    [][(io'.op \in {"music_command", "album_command"}
        /\ io'.replies = <<"wrong_kind">>) =>
            /\ RepliesOnly
            /\ processed_songs' = processed_songs]_vars

\* C21 amended: for a non-empty argument exactly one of /music and /album
\* proceeds to resolution, the one that suits the argument's kind; the other
\* replies with the wrong-kind error only, starts no resolver call, download
\* or upload and leaves the counters unchanged, but has emptied the
\* processed-ID set before.
C21_WrongKindRepliesOnly ==
    [][(io'.op \in {"music_command", "album_command"} /\ io'.arg # <<>>) =>
            /\ processed_songs' = {}
            /\ IF RightKind(io')
               THEN /\ io'.replies = <<"processing">>
                    /\ pc' = "ids" /\ ids' = <<io'.arg>>
               ELSE /\ io'.replies = <<"wrong_kind">>
                    /\ RepliesOnly]_vars

\* C21 happens: a command of the wrong kind was rejected while identifiers
\* of an earlier request were in the processed-ID set before it
C21_WrongKindRejected ==
    /\ CommandWithArgument /\ io.replies = <<"wrong_kind">>
    /\ earlier # {} /\ progress_stats["processed"] > 0

\* the words of the MIME type hold no "text", or the document has no type
NoTextType(mime_type) == {i \in DOMAIN mime_type : mime_type[i] = "text"} = {}

\* the replies that reject an upload or report an empty extraction
RejectingReplies == {<<"not_text">>, <<"no_ids">>, <<"no_urls">>}

\* C22: a document whose MIME type is missing or holds no "text", and a
\* message or file from which nothing can be extracted, get exactly one
\* error reply and nothing else: no resolver call, no download or upload,
\* no progress message, no counter changes, no request starts; a handler
\* that goes on has a text file and extracted something.
C22_RejectedInputRepliesOnly ==
    [][io'.op \in {"handle_text_message", "handle_document", "get_command"}
       /\ pc = "idle" =>
            /\ (io'.op = "handle_document" /\ NoTextType(io'.mime)) =>
                    io'.replies = <<"not_text">>
            /\ io'.replies = <<"not_text">> => NoTextType(io'.mime)
            /\ io'.replies \in RejectingReplies =>
                    /\ RepliesOnly
                    /\ pc' = "idle" /\ handler' = "none"
            /\ io'.replies = <<"found">> =>
                    /\ ids' # <<>> \/ urls' # <<>>
                    /\ io'.op # "handle_text_message" =>
                            ~NoTextType(io'.mime)]_vars

\* C22 happens: a document without a text type was rejected after an
\* earlier request had counted songs
C22_DocumentRejected ==
    /\ io.op = "handle_document" /\ io.replies = <<"not_text">>
    /\ io.mime = <<"application", "pdf">>
    /\ progress_stats["processed"] > 0

\* the words of a text of URLs in the order they stand in it
RECURSIVE WordsInOrder(_, _)
WordsInOrder(lines, i) ==
    IF i > Len(lines) THEN <<>>
    ELSE lines[i] \o WordsInOrder(lines, i + 1)

\* what an extraction can return, in the order it stands in the text
FoundInOrder(e) ==
    IF e.of = "urls"
    THEN SelectSeq(WordsInOrder(e.text, 1), LAMBDA w : w.site # "")
    ELSE ids_of_lines(e.text, 1)

\* the list holds the elements of l once each, in the order of their first
\* occurrence in l
FirstOccurrences(list, l) ==
    /\ NoRepeat(list)
    /\ Range(list) = Range(l)
    /\ \A i, j \in 1..Len(list) :
            i < j =>
                \E m \in 1..Len(l) :
                    /\ l[m] = list[i]
                    /\ \A n \in 1..m : l[n] # list[j]

\* C23: the list extract_ids_from_text or extract_urls_from_text returns
\* holds no element twice, and its elements stand in the order of their
\* first occurrence in the text.
C23_OnceInOrderOfFirstOccurrence ==
    extraction # NotExtracting =>
        FirstOccurrences(extraction.returned, FoundInOrder(extraction))

\* the labels of the caption in their fixed order
CaptionLabels == <<"Music ID", "Album", "Year", "Language", "Duration">>

\* the field of the label is present in the metadata: given and not empty;
\* the duration "Unknown" stands for a duration that is not known
HasField(m, label) ==
    LET filled(v) == v.given /\ Len(v.text) > 0
    IN  IF label = "Music ID" THEN filled(m.songId) \/ filled(m.musicId)
        ELSE IF label = "Album" THEN filled(m.albumId)
        ELSE IF label = "Year" THEN filled(m.year)
        ELSE IF label = "Language" THEN filled(m.language)
        ELSE m.duration.kind = "seconds" /\ m.duration.seconds > 0

\* the labels of the lines of a caption, in order
LabelsOf(c) ==
    LET lines == SelectSeq(c, LAMBDA piece : piece # Newline)
    IN  [i \in DOMAIN lines |-> lines[i].label]

\* the metadata of the example: musicId, albumId and year only
ExampleMetadata ==
    [songId |-> Missing, musicId |-> Given(MusicId8),
     albumId |-> Given(AlbumId14), year |-> Given(Year2020),
     language |-> Missing, duration |-> [kind |-> "missing", seconds |-> 0]]

\* C24: format_caption renders one labeled line per present field, in the
\* order Music ID, Album, Year, Language, Duration, and nothing for a field
\* that is missing or empty: no blank line, no newline at the end; the
\* metadata with musicId, albumId and year only gives those three lines.
C24_OneLinePerPresentField ==
    captioning.called =>
        LET c == captioning.caption
            m == captioning.metadata
        IN  /\ LabelsOf(c) =
                    SelectSeq(CaptionLabels, LAMBDA l : HasField(m, l))
            /\ \A i \in DOMAIN c : (c[i] = Newline) <=> (i % 2 = 0)
            /\ c # <<>> => c[Len(c)] # Newline
            /\ \A i \in DOMAIN c :
                    /\ c[i].label = "Album" => c[i].value = m.albumId.text
                    /\ c[i].label = "Year" => c[i].value = m.year.text
                    /\ c[i].label = "Language" => c[i].value = m.language.text
                    /\ c[i].label = "Music ID" => c[i].value = MusicId8
            /\ m = ExampleMetadata =>
                    c = <<[label |-> "Music ID", value |-> MusicId8], Newline,
                          [label |-> "Album", value |-> AlbumId14], Newline,
                          [label |-> "Year", value |-> Year2020]>>

\* C24 happens: the caption of the example, three lines and no fourth
C24_ExampleCaption ==
    /\ captioning.called
    /\ captioning.metadata = ExampleMetadata
    /\ Len(captioning.caption) = 5

\* how often a URL stands in a list
CountIn(l, u) == Cardinality({i \in DOMAIN l : l[i] = u})

\* l is a permutation of m
Permutation(l, m) ==
    Len(l) = Len(m) /\ \A u \in Range(l) \cup Range(m) : CountIn(l, u) = CountIn(m, u)

\* the class of a URL by its extension: lossless, AAC/M4A, MP3
FormatRank(url) ==
    IF url.ext = ".flac" THEN 3
    ELSE IF url.ext \in {".m4a", ".aac"} THEN 2
    ELSE IF url.ext = ".mp3" THEN 1
    ELSE 0

\* the bitrate a URL names, 0 when it names none
BitrateTokens == {"320", "256", "192", "160", "128", "96", "64"}
NamedBitrate(url) ==
    IF "320" \in url.marks THEN 320 ELSE IF "256" \in url.marks THEN 256
    ELSE IF "192" \in url.marks THEN 192 ELSE IF "160" \in url.marks THEN 160
    ELSE IF "128" \in url.marks THEN 128 ELSE IF "96" \in url.marks THEN 96
    ELSE IF "64" \in url.marks THEN 64 ELSE 0

\* the list is a permutation of the given one and equal scores keep their
\* order
StablePermutation(r, given) ==
    /\ Permutation(r, given)
    /\ \A u, v \in Range(given) :
            (u # v /\ get_quality_score(u) = get_quality_score(v)) =>
                LET first(l, x) == CHOOSE i \in DOMAIN l :
                                      l[i] = x /\ \A k \in 1..(i - 1) : l[k] # x
                IN  (first(given, u) < first(given, v))
                        <=> (first(r, u) < first(r, v))

\* C25: sort_urls_by_quality returns a permutation of its input in which
\* every .flac URL precedes every AAC/M4A URL and every AAC/M4A URL every
\* MP3 URL, URLs that name a bitrate stand in the order 320 > 256 > 192 >
\* 160 > 128 > 96 > 64, and URLs of equal score keep their relative order.
C25_LosslessThenAacThenMp3 ==
    sorting.called =>
        LET r == sorting.returned
        IN  /\ StablePermutation(r, sorting.urls)
            /\ \A i, j \in DOMAIN r :
                    /\ (FormatRank(r[i]) > FormatRank(r[j])
                        /\ FormatRank(r[j]) > 0) => i < j
                    /\ (NamedBitrate(r[i]) > NamedBitrate(r[j])
                        /\ NamedBitrate(r[j]) > 0) => i < j

\* C26: every batch of a text message or a document with an extracted
\* identifier reaches its end: the completion reply to the requester and the
\* final progress update, whatever failed for single identifiers.
C26_BatchEventuallyComplete ==
    (handler \in {"text", "document"}) ~>
        (/\ io.op = "request_completed" /\ io.replies = <<"finished">>
         /\ io.progress # {} /\ handler = "none")

\* C26 happens: a batch of a text message or a document is complete although
\* songs have failed
C26_CompleteAfterFailures ==
    /\ io.op = "request_completed" /\ io.replies = <<"finished">>
    /\ progress_stats["failed"] > 0 /\ earlier # {}

\* C27: in /get processing the reply "album complete, N songs uploaded
\* successfully" is sent only when all N songs of the album were sent to the
\* destination chat.  io.count is the N of the reply, io.uploaded the
\* send_audio calls that succeeded for the songs of the album.
C27_CompleteOnlyWhenAllUploaded ==
    (io.op = "get_command" /\ io.replies = <<"album_complete">>)
        => io.uploaded = io.count

\* the counters of progress_stats that tell what became of a song
OutcomeKeys == {"duplicates", "skipped", "downloaded", "failed"}

\* what a step adds to a counter
Added(key) == progress_stats'[key] - progress_stats[key]

\* C28: one processing of a song, by process_song_downloads or by
\* process_song_from_album, increments at most one of duplicates, skipped,
\* downloaded and failed, by exactly 1, and never both downloaded and
\* failed, whatever raises on the way.
C28_AtMostOneOutcomeCounted ==
    [][io'.op \in {"process_song_downloads", "process_song_from_album"} =>
        /\ \A key \in OutcomeKeys : Added(key) \in {0, 1}
        /\ Cardinality({key \in OutcomeKeys : Added(key) = 1}) <= 1
        /\ ~(Added("downloaded") = 1 /\ Added("failed") = 1)]_vars

\* send_audio raised for a song, which is counted failed and not downloaded
C28_SendRaisedCountedOnce ==
    /\ io.op \in {"process_song_downloads", "process_song_from_album"}
    /\ io.outcome = "failed" /\ io.steps = <<"download", "upload">>
    /\ progress_stats["failed"] = 1 /\ progress_stats["downloaded"] = 0

\* C29: in every reachable state, after any requests over the ID path and
\* the /get path, the downloaded counter is at most the processed counter.
C29_DownloadedAtMostProcessed ==
    progress_stats["downloaded"] <= progress_stats["processed"]

\* a song sent by /get after a request before it had one sent: both
\* counters stand at 2
C29_BothCountersAdvanced ==
    /\ io.op = "process_song_from_album" /\ io.outcome = "downloaded"
    /\ earlier # {}
    /\ progress_stats["downloaded"] = 2 /\ progress_stats["processed"] = 2

\* C30: on the ID path the identifier of a song enters processed_songs
\* exactly when a download is about to be attempted for it.  A song skipped
\* for lack of download URLs is not added; an identifier in the set is
\* counted duplicate and nothing is attempted for it; a song whose download
\* or upload failed is in the set afterwards; and the set loses nothing
\* while the request runs.
C30_MarkedWhenDownloadStarts ==
    [][/\ io'.op = "process_song_downloads" =>
            /\ processed_songs' =
                    IF io'.steps # <<>> /\ io'.song # NoId
                    THEN processed_songs \cup {io'.song} ELSE processed_songs
            /\ io'.outcome = "skipped" => io'.song \notin processed_songs'
            /\ io'.song \in processed_songs =>
                    io'.outcome = "duplicate" /\ io'.steps = <<>>
            /\ (io'.outcome \in {"download_failed", "failed"}
                    /\ io'.song # NoId) => io'.song \in processed_songs'
       /\ pc # "idle" => processed_songs \subseteq processed_songs']_vars

\* the repeat of a song whose download or upload failed earlier in the
\* request: counted duplicate, nothing sent for it
C30_FailedSongNotRetried ==
    /\ io.op = "process_song_downloads" /\ io.outcome = "duplicate"
    /\ io.repeat /\ sent[io.song] = 0

=============================================================================
